---- MODULE Spec2Model ----
(***************************************************************************)
(* PICLE (Python Interactive Command Line Shells): the shell session of    *)
(* picle.App.  A line is a sequence of tokens (the result of               *)
(* command.split(" ") with empty items dropped), a token is a sequence of  *)
(* one-character strings, a Python value is a tagged record and a dict is  *)
(* a function whose domain is its key set.                                 *)
(***************************************************************************)
EXTENDS Integers, Sequences, FiniteSets, TLC

(***************************************************************************)
(* Bounds of the exploration.                                              *)
(***************************************************************************)
\* longest line, in tokens, typed at the prompt in Spec
MaxLineLen == 3
\* most tokens of one pipe segment of a line typed in SpecPipe
MaxSegLen == 2
\* most "|" separators of a line typed in SpecPipe
MaxPipes == 2
\* the deepest stack of shells a session builds
MaxDepth == 4
\* most tokens after the field of a line typed in SpecValues
MaxValueLen == 3
\* longest line, in tokens, typed in SpecHandlers
MaxHandlerLen == 4
MaxPathLen == 2
MaxMounted == 2
MaxTime == 2
TimeToLive == 1
NumCallers == 2
MaxTries == 1
MaxBackups == 2
\* most tokens after the node of a line typed in SpecEnum
MaxEnumLen == 4
\* most tokens after "table" of a line typed in SpecTable
MaxTableLen == 4

(***************************************************************************)
(* Tokens.                                                                 *)
(***************************************************************************)
T_a == <<"a">>
T_n == <<"n">>
T_b == <<"b">>
T_c == <<"c">>
T_x == <<"x">>
T_z == <<"z">>
T_k == <<"k">>
T_f == <<"f">>
T_R == <<"R">>
T_r == <<"r">>
T_y == <<"y">>
T_m == <<"m">>
T_param == <<"p", "a", "r", "a", "m">>
T_sh == <<"s", "h">>
T_j == <<"j">>
T_include == <<"i", "n", "c", "l", "u", "d", "e">>
T_exclude == <<"e", "x", "c", "l", "u", "d", "e">>
T_4 == <<"4">>
T_v == <<"v">>
T_W == <<"W">>
T_E == <<"E">>
T_pipe == <<"|">>
T_q == <<"?">>
T_exit == <<"e", "x", "i", "t">>
T_top == <<"t", "o", "p">>
T_end == <<"e", "n", "d">>
T_pwd == <<"p", "w", "d">>
T_help == <<"h", "e", "l", "p">>
T_t == <<"t">>
T_e == <<"e">>
T_nm == <<"n", "m">>
T_np == <<"n", "p">>
T_d == <<"d">>
T_D == <<"D">>
T_g == <<"g">>
T_u == <<"u">>
T_w == <<"w">>
T_h == <<"h">>
T_p == <<"p">>
T_o == <<"o">>
T_zz == <<"z", "z">>
T_s == <<"s">>
T_sn == <<"s", "n">>
T_task == <<"t", "a", "s", "k">>
T_cli == <<"c", "l", "i">>
T_cfg == <<"c", "f", "g">>
T_client == <<"c", "l", "i", "e", "n", "t">>
T_cl == <<"c", "l">>
T_table == <<"t", "a", "b", "l", "e">>
T_sortby == <<"s", "o", "r", "t", "b", "y">>
\* tokens with quote characters and brackets
T_dq_a == <<"\"", "a">>
T_b_dq == <<"b", "\"">>
T_dq_c_dq == <<"\"", "c", "\"">>
T_sq_a == <<"'", "a">>
T_b_sq == <<"b", "'">>
T_sq_c_sq == <<"'", "c", "'">>
T_br_a == <<"{", "a">>
T_b_br == <<"b", "}">>

(***************************************************************************)
(* Python values.                                                          *)
(***************************************************************************)
\* the Ellipsis object: a field that has collected no value
Unset == [t |-> "ellipsis"]
PyNone == [t |-> "none"]
PyStr(s) == [t |-> "str", s |-> s]
PyInt(i) == [t |-> "int", i |-> i]
PyBool(b) == [t |-> "bool", b |-> b]
PyFloat(s) == [t |-> "float", f |-> s]
PyList(l) == [t |-> "list", l |-> l]
\* a dict value; d is a function from keys to values
PyDict(d) == [t |-> "dict", d |-> d]
\* a multi-line string, kept as the sequence of its lines
PyText(lines) == [t |-> "text", lines |-> lines]

EmptyDict == [k \in {} |-> Unset]

\* {**a, **b}
Merge(a, b) ==
    [k \in (DOMAIN a) \cup (DOMAIN b) |-> IF k \in DOMAIN b THEN b[k] ELSE a[k]]

\* the dict a without the keys in ks
Without(a, ks) == [k \in (DOMAIN a) \ ks |-> a[k]]

Last(s) == s[Len(s)]
Front(s) == SubSeq(s, 1, Len(s) - 1)

(***************************************************************************)
(* Strings.                                                                *)
(***************************************************************************)
Digits == {"0", "1", "2", "3", "4", "5", "6", "7", "8", "9"}

DigitVal(ch) ==
    CASE ch = "0" -> 0 [] ch = "1" -> 1 [] ch = "2" -> 2 [] ch = "3" -> 3
      [] ch = "4" -> 4 [] ch = "5" -> 5 [] ch = "6" -> 6 [] ch = "7" -> 7
      [] ch = "8" -> 8 [] ch = "9" -> 9

DigitChar(d) == <<"0", "1", "2", "3", "4", "5", "6", "7", "8", "9">>[d + 1]

\* str.startswith
StartsWith(s, p) == Len(p) <= Len(s) /\ SubSeq(s, 1, Len(p)) = p

\* str.endswith
EndsWith(s, p) == Len(p) <= Len(s) /\ SubSeq(s, Len(s) - Len(p) + 1, Len(s)) = p

\* ch in s
HasChar(s, ch) == \E i \in 1..Len(s) : s[i] = ch

\* s.count(ch)
CountChar(s, ch) == Cardinality({i \in 1..Len(s) : s[i] = ch})

\* s.replace(ch, "")
RECURSIVE StripChar(_, _)
StripChar(s, ch) ==
    IF s = <<>> THEN <<>>
    ELSE IF Head(s) = ch THEN StripChar(Tail(s), ch)
    ELSE <<Head(s)>> \o StripChar(Tail(s), ch)

\* p in s, for strings
Contains(s, p) ==
    \E i \in 0..(Len(s) - Len(p)) : SubSeq(s, i + 1, i + Len(p)) = p

\* " ".join(items)
RECURSIVE JoinSpace(_)
JoinSpace(items) ==
    IF Len(items) = 0 THEN <<>>
    ELSE IF Len(items) = 1 THEN items[1]
    ELSE items[1] \o <<" ">> \o JoinSpace(Tail(items))

LowerChar(ch) ==
    CASE ch = "T" -> "t" [] ch = "R" -> "r" [] ch = "U" -> "u" [] ch = "E" -> "e"
      [] ch = "F" -> "f" [] ch = "A" -> "a" [] ch = "L" -> "l" [] ch = "S" -> "s"
      [] ch = "N" -> "n" [] ch = "O" -> "o" [] ch = "W" -> "w"
      [] OTHER -> ch

Lower(s) == [i \in 1..Len(s) |-> LowerChar(s[i])]

\* str.isdigit
IsDigit(s) == Len(s) > 0 /\ \A i \in 1..Len(s) : s[i] \in Digits

\* int(s) of a string of digits
RECURSIVE IntOf(_)
IntOf(s) == IF s = <<>> THEN 0 ELSE 10 * IntOf(Front(s)) + DigitVal(Last(s))

\* float(s) succeeds: digits with one decimal point and an optional sign
FloatOk(s) ==
    LET body == IF Len(s) > 0 /\ s[1] \in {"+", "-"} THEN Tail(s) ELSE s
    IN  /\ CountChar(body, ".") = 1
        /\ \A i \in 1..Len(body) : body[i] \in Digits \cup {"."}
        /\ \E i \in 1..Len(body) : body[i] \in Digits

\* str(i) of a natural number
RECURSIVE StrOfNat(_)
StrOfNat(i) == IF i < 10 THEN <<DigitChar(i)>> ELSE StrOfNat(i \div 10) \o <<DigitChar(i % 10)>>

(***************************************************************************)
(* The state of the schema.                                                *)
(***************************************************************************)
\* tree is model_fields of every model class, which model_mount and
\* model_remove change
VARIABLE tree

(***************************************************************************)
(* The schema: a tree of pydantic models.  A model is named by a string;   *)
(* ModelFields(m) is m.model_fields in its order and Config(m) is what the *)
(* shell reads of the class: PicleConfig and the methods.                  *)
(***************************************************************************)
NoAlias == <<>>
NoPresence == [has |-> FALSE, v |-> PyNone]
Presence(v) == [has |-> TRUE, v |-> v]
NoFunction == ""

\* a FieldInfo whose annotation is a model class
ModelField(name, model) ==
    [name |-> name, alias |-> NoAlias, salias |-> NoAlias, kind |-> "model",
     ann |-> model, enum |-> <<>>, default |-> PyNone, required |-> FALSE,
     presence |-> NoPresence, function |-> NoFunction,
     processors |-> <<>>, outputter |-> PyNone, outputter_kwargs |-> EmptyDict,
     root_model |-> FALSE, picle_app |-> FALSE]

\* a FieldInfo of a value: Field(default, json_schema_extra = {...})
ValueField(name, ann, default, required, presence, function) ==
    [name |-> name, alias |-> NoAlias, salias |-> NoAlias, kind |-> "field",
     ann |-> ann, enum |-> <<>>, default |-> default, required |-> required,
     presence |-> presence, function |-> function,
     processors |-> <<>>, outputter |-> PyNone, outputter_kwargs |-> EmptyDict,
     root_model |-> FALSE, picle_app |-> FALSE]

\* Field(..., serialization_alias = salias)
WithSerializationAlias(field, salias) == [field EXCEPT !.salias = salias]

\* Field(..., alias = alias): pydantic's Field sets the serialization alias
\* to the alias when none is given
WithAlias(field, alias) == [field EXCEPT !.alias = alias, !.salias = alias]

\* a field annotated with an Enum class of these values
EnumField(name, variants) ==
    [ValueField(name, "Enum", PyNone, FALSE, NoPresence, NoFunction) EXCEPT !.enum = variants]

\* json_schema_extra = {"processors": [...]}
WithProcessors(field, processors) == [field EXCEPT !.processors = processors]

\* a callable given as an outputter; raises: the call raises an exception
Outputter(name, raises) == [t |-> "callable", name |-> name, raises |-> raises]

\* json_schema_extra = {"outputter": outputter}
WithOutputter(field, outputter) == [field EXCEPT !.outputter = outputter]

\* json_schema_extra = {"outputter_kwargs": kwargs}
WithOutputterKwargs(field, kwargs) == [field EXCEPT !.outputter_kwargs = kwargs]

Models == {"Root", "A", "N", "B", "C", "Show", "PipeFunctionsModel", "T", "U",
           "test_mount_model", "model_EnumFieldWithSameName", "TabulateTableOutputter"}

\* the value of TabulateTableOutputter.PicleConfig.pipe: a str, which names
\* a class and is no class
ImportString == "picle.models.PipeFunctionsModel"

\* the object is a model class: it has model_fields, __name__, and it may
\* have PicleConfig and methods
IsModelClass(m) == m \in Models

\* the fields the model classes declare
DeclaredFields(m) ==
    CASE m = "Root" ->
           << ValueField(T_x, "StrictInt", PyInt(1), FALSE, NoPresence, NoFunction),
              ValueField(T_f, "StrictBool", PyNone, FALSE, Presence(PyBool(TRUE)), NoFunction),
              ModelField(T_a, "A"),
              ModelField(T_sh, "Show"),
              ModelField(T_t, "T"),
              ModelField(T_sn, "model_EnumFieldWithSameName") >>
      [] m = "A" ->
           << ValueField(T_x, "StrictInt", PyInt(2), FALSE, NoPresence, NoFunction),
              ValueField(T_z, "StrictInt", PyInt(3), FALSE, NoPresence, NoFunction),
              ModelField(T_n, "N") >>
      [] m = "N" ->
           << ValueField(T_k, "StrictStr", PyStr(T_v), FALSE, NoPresence, NoFunction),
              ModelField(T_b, "B") >>
      [] m = "B" ->
           << ValueField(T_x, "StrictInt", PyNone, FALSE, NoPresence, NoFunction),
              ValueField(T_f, "StrictBool", PyNone, FALSE, Presence(PyBool(TRUE)), NoFunction),
              WithSerializationAlias(
                  ValueField(T_r, "StrictStr", PyNone, TRUE, NoPresence, NoFunction), T_R),
              ModelField(T_c, "C") >>
      [] m = "C" ->
           << ValueField(T_x, "StrictInt", PyNone, FALSE, NoPresence, NoFunction) >>
      [] m = "Show" ->
           << ValueField(T_j, "Any", PyNone, FALSE, NoPresence, "show_joke") >>
      [] m = "PipeFunctionsModel" ->
           << ValueField(T_include, "Any", PyNone, FALSE, NoPresence, "filter_include"),
              ValueField(T_exclude, "Any", PyNone, FALSE, NoPresence, "filter_exclude"),
              ModelField(T_table, "TabulateTableOutputter") >>
      [] m = "TabulateTableOutputter" ->
           << ValueField(T_sortby, "StrictStr", PyNone, FALSE, NoPresence, NoFunction) >>
      [] m = "T" ->
           << EnumField(T_e, <<T_nm, T_np>>),
              WithAlias(ValueField(T_d, "StrictStr", PyNone, FALSE, NoPresence, NoFunction), T_D),
              ValueField(T_g, "Any", PyNone, FALSE, NoPresence, "show_g"),
              ModelField(T_u, "U") >>
      [] m = "U" ->
           << ValueField(T_w, "StrictStr", PyNone, FALSE, NoPresence, NoFunction),
              ValueField(T_h, "Any", PyNone, FALSE, NoPresence, "boom"),
              WithProcessors(
                  ValueField(T_p, "Any", PyNone, FALSE, NoPresence, "show_g"), <<"fail">>),
              WithOutputter(
                  ValueField(T_o, "Any", PyNone, FALSE, NoPresence, "show_g"),
                  Outputter("broken", TRUE)),
              WithOutputterKwargs(
                  WithOutputter(
                      ValueField(T_y, "Any", PyNone, FALSE, NoPresence, "show_g"),
                      Outputter("outputter_nested", FALSE)),
                  (<<"with_tables">> :> PyBool(TRUE))) >>
      [] m = "test_mount_model" ->
           << ValueField(T_param, "StrictStr", PyNone, FALSE, NoPresence, NoFunction) >>
      [] m = "model_EnumFieldWithSameName" ->
           \* the Enum has the values cli and cfg, and one more that is the
           \* name of the field next to it
           << EnumField(T_task, <<T_cli, T_cfg, T_client>>),
              ValueField(T_client, "StrictStr", PyNone, FALSE, NoPresence, NoFunction) >>

\* model.model_fields, which model_mount and model_remove change
ModelFields(m) == tree[m]

NoPrompt == "<no prompt attribute>"
NoPipe == "<no pipe attribute>"

\* hasConfig: the class has a PicleConfig; prompt, pipe: its attributes;
\* methods: the static methods the class defines.  No model of the schema
\* sets PicleConfig.processors or PicleConfig.outputter.
NoProcessors == [has |-> FALSE, l |-> <<>>]
NoOutputter == [has |-> FALSE, v |-> PyNone, kwargs |-> EmptyDict]
ConfigProcessors(m) == NoProcessors
ConfigOutputter(m) == NoOutputter

Config(m) ==
    CASE m = "Root" ->
           [hasConfig |-> TRUE, subshell |-> FALSE, prompt |-> "root#",
            pipe |-> NoPipe, methods |-> {}]
      [] m = "A" ->
           [hasConfig |-> TRUE, subshell |-> TRUE, prompt |-> "a#",
            pipe |-> NoPipe, methods |-> {"run"}]
      [] m = "N" ->
           [hasConfig |-> FALSE, subshell |-> FALSE, prompt |-> NoPrompt,
            pipe |-> NoPipe, methods |-> {}]
      [] m = "B" ->
           [hasConfig |-> TRUE, subshell |-> TRUE, prompt |-> NoPrompt,
            pipe |-> NoPipe, methods |-> {"run"}]
      [] m = "C" ->
           [hasConfig |-> TRUE, subshell |-> TRUE, prompt |-> "c#",
            pipe |-> NoPipe, methods |-> {"run"}]
      [] m = "Show" ->
           [hasConfig |-> TRUE, subshell |-> FALSE, prompt |-> NoPrompt,
            pipe |-> "PipeFunctionsModel", methods |-> {"show_joke"}]
      [] m = "PipeFunctionsModel" ->
           [hasConfig |-> TRUE, subshell |-> FALSE, prompt |-> NoPrompt,
            pipe |-> "self", methods |-> {"filter_include", "filter_exclude"}]
      [] m = "T" ->
           [hasConfig |-> TRUE, subshell |-> FALSE, prompt |-> NoPrompt,
            pipe |-> "PipeFunctionsModel", methods |-> {"run", "show_g"}]
      [] m = "U" ->
           [hasConfig |-> FALSE, subshell |-> FALSE, prompt |-> NoPrompt,
            pipe |-> NoPipe, methods |-> {"show_g", "boom"}]
      [] m = "test_mount_model" ->
           [hasConfig |-> FALSE, subshell |-> FALSE, prompt |-> NoPrompt,
            pipe |-> NoPipe, methods |-> {"run"}]
      [] m = "model_EnumFieldWithSameName" ->
           [hasConfig |-> FALSE, subshell |-> FALSE, prompt |-> NoPrompt,
            pipe |-> NoPipe, methods |-> {"run"}]
      [] m = "TabulateTableOutputter" ->
           [hasConfig |-> TRUE, subshell |-> FALSE, prompt |-> NoPrompt,
            pipe |-> ImportString, methods |-> {"run"}]

\* model.model_fields.keys()
FieldNames(m) == {ModelFields(m)[i].name : i \in 1..Len(ModelFields(m))}

\* getattr(model.PicleConfig, "subshell", None) is True
IsSubshell(m) == Config(m).hasConfig /\ Config(m).subshell

(***************************************************************************)
(* App._save_collected_value                                               *)
(***************************************************************************)
\* the "attempt to mutate value" conversion of a string
MutateValue(value) ==
    IF value.t # "str" THEN value
    ELSE IF Lower(value.s) = <<"f", "a", "l", "s", "e">> THEN PyBool(FALSE)
    ELSE IF Lower(value.s) = <<"t", "r", "u", "e">> THEN PyBool(TRUE)
    ELSE IF Lower(value.s) = <<"n", "o", "n", "e">> THEN PyNone
    ELSE IF IsDigit(value.s) THEN PyInt(IntOf(value.s))
    ELSE IF HasChar(value.s, ".") /\ FloatOk(value.s) THEN PyFloat(value.s)
    ELSE value

\* field is a collected field {"name", "values", "field"}; the result is the
\* field after the call
SaveCollectedValue(field, value, replace) ==
    IF field.field.ann = "Json"
    THEN IF field.values = Unset
         THEN [field EXCEPT !.values = value]
         ELSE [field EXCEPT !.values = PyStr(field.values.s \o value.s)]
    ELSE LET v == MutateValue(value)
         IN  IF field.values = Unset THEN [field EXCEPT !.values = v]
             ELSE IF replace THEN [field EXCEPT !.values = v]
             ELSE IF field.values.t = "list"
                  THEN [field EXCEPT !.values = PyList(Append(field.values.l, v))]
             ELSE [field EXCEPT !.values = PyList(<<field.values, v>>)]

(***************************************************************************)
(* App.extract_model_defaults                                              *)
(***************************************************************************)
\* the loop over the fields fs: the fields that are not Callable, are not
\* required and have a default other than None
FieldDefaults(fs) ==
    LET used == {i \in 1..Len(fs) :
                    /\ fs[i].ann # "Callable"
                    /\ ~fs[i].required
                    /\ fs[i].default # PyNone}
    IN  [name \in {fs[i].name : i \in used} |->
            fs[CHOOSE i \in used : fs[i].name = name].default]

ExtractModelDefaults(m) == FieldDefaults(ModelFields(m))

(***************************************************************************)
(* App.parse_command.  The state of its loop: ret, the list of pipe        *)
(* segments, each a list of frames {"model", "fields", "parameter",        *)
(* "defaults"}; current_model is the last frame of the last segment;       *)
(* current_field is a reference to a dict held in some frame's "fields",   *)
(* kept here as its place (segment, frame, index), NoField being {}.       *)
(***************************************************************************)
\* the "parameter" of the first frame: Ellipsis
NoParameter == <<>>
NoField == [s |-> 0, m |-> 0, i |-> 0]

Frame(model, parameter, hasDefaults) ==
    [model |-> model, fields |-> <<>>, parameter |-> parameter,
     hasDefaults |-> hasDefaults,
     defaults |-> IF hasDefaults THEN ExtractModelDefaults(model) ELSE EmptyDict]

CurrentModel(ps) == Last(Last(ps.ret))

\* the dict current_field refers to
FieldAt(ps, cf) == ps.ret[cf.s][cf.m].fields[cf.i]

SetFieldAt(ps, cf, field) ==
    [ps EXCEPT !.ret[cf.s][cf.m].fields[cf.i] = field]

\* presence that is never recorded
NeedsPresence_Never(ps) == FALSE

\* current_field.get("values") is ... and "presence" in json_schema_extra
NeedsPresence(ps) ==
    /\ ps.cf # NoField
    /\ FieldAt(ps, ps.cf).values = Unset
    /\ FieldAt(ps, ps.cf).field.presence.has

\* record field presence before going on
RecordPresence(ps) ==
    IF NeedsPresence(ps)
    THEN SetFieldAt(ps, ps.cf,
             SaveCollectedValue(FieldAt(ps, ps.cf), FieldAt(ps, ps.cf).field.presence.v, FALSE))
    ELSE ps

\* save a value to current_field
SaveToCurrent(ps, value) ==
    SetFieldAt(ps, ps.cf, SaveCollectedValue(FieldAt(ps, ps.cf), value, FALSE))

\* the index in model_fields of the field a parameter names, by name first
\* and then by alias or serialization alias; 0 when it names none
\* a lookup by name only
FieldIndexIn_NameOnly(fs, parameter) ==
    LET byName == {i \in 1..Len(fs) : fs[i].name = parameter}
    IN  IF byName # {} THEN CHOOSE i \in byName : TRUE ELSE 0

FieldIndexIn(fs, parameter) ==
    LET byName == {i \in 1..Len(fs) : fs[i].name = parameter}
        byAlias == {i \in 1..Len(fs) : parameter = fs[i].alias \/ parameter = fs[i].salias}
    IN  IF byName # {} THEN CHOOSE i \in byName : TRUE
        ELSE IF byAlias # {} THEN CHOOSE i \in byAlias : \A j \in byAlias : i <= j
        ELSE 0

FieldIndex(m, parameter) == FieldIndexIn(ModelFields(m), parameter)

\* the collect loops of the quoted and bracketed values: pop parameters
\* until one closes the value (it ends with ch for a bracket, it contains ch
\* for a quote); the result is <<items popped, parameters left>>
Closes(parameter, ch) ==
    IF ch \in {"}", "]"} THEN EndsWith(parameter, <<ch>>) ELSE HasChar(parameter, ch)

\* a collection that a "|" ends, the "|" being left for the main loop
RECURSIVE CollectUntil_StopsAtPipe(_, _, _)
CollectUntil_StopsAtPipe(parameters, items, ch) ==
    IF parameters = <<>> \/ Head(parameters) = T_pipe THEN <<items, parameters>>
    ELSE IF Closes(Head(parameters), ch)
         THEN <<Append(items, Head(parameters)), Tail(parameters)>>
    ELSE CollectUntil_StopsAtPipe(Tail(parameters), Append(items, Head(parameters)), ch)

RECURSIVE CollectUntil(_, _, _)
CollectUntil(parameters, items, ch) ==
    IF parameters = <<>> THEN <<items, parameters>>
    ELSE IF Closes(Head(parameters), ch)
         THEN <<Append(items, Head(parameters)), Tail(parameters)>>
    ELSE CollectUntil(Tail(parameters), Append(items, Head(parameters)), ch)

\* the items with every ch removed
StripAll(items, ch) == [i \in 1..Len(items) |-> StripChar(items[i], ch)]

Raise(ps, exc, parameter) ==
    [ps EXCEPT !.exc = exc, !.excParameter = parameter]

\* a "|" that is skipped, the loop going on with the next token
ParsePipe_Skip(ps, parameter, rest) == [ps EXCEPT !.parameters = rest]

\* "|": a new segment at the pipe model, or the break of the loop
ParsePipe(ps, parameter, rest) ==
    LET cm == CurrentModel(ps)
        cfg == Config(cm.model)
    IN  IF ~IsModelClass(cm.model)
        THEN \* a str has no PicleConfig, and no __name__ for the message
             Raise(ps, "AttributeError", parameter)
        ELSE IF cfg.hasConfig /\ cfg.pipe # NoPipe
        THEN LET target == IF cfg.pipe = "self" THEN cm.model ELSE cfg.pipe
             IN  [ps EXCEPT !.ret = Append(ps.ret, <<Frame(target, parameter, FALSE)>>),
                            !.parameters = rest]
        ELSE [ps EXCEPT !.parameters = <<>>, !.pipeError = TRUE]

\* a bracketed ("{", "[") value: the items are joined as they are
ParseBracket(ps, parameter, rest, ch) ==
    LET got == CollectUntil(rest, <<parameter>>, ch)
    IN  [SaveToCurrent(ps, PyStr(JoinSpace(got[1]))) EXCEPT !.parameters = got[2]]

\* a quoted value whose single quotes are left in place
ParseQuoted_KeepsSingle(ps, parameter, rest, ch) ==
    LET got == IF CountChar(parameter, ch) # 2
               THEN CollectUntil(rest, <<parameter>>, ch)
               ELSE <<(<<parameter>>), rest>>
    IN  [SaveToCurrent(ps, PyStr(JoinSpace(IF ch = "'" THEN got[1] ELSE StripAll(got[1], ch))))
            EXCEPT !.parameters = got[2]]

\* a quoted value: the quote characters are removed from every item
ParseQuoted(ps, parameter, rest, ch) ==
    LET got == IF CountChar(parameter, ch) # 2
               THEN CollectUntil(rest, <<parameter>>, ch)
               ELSE <<(<<parameter>>), rest>>
    IN  [SaveToCurrent(ps, PyStr(JoinSpace(StripAll(got[1], ch))))
            EXCEPT !.parameters = got[2]]

\* a step that appends the field, named before or not
GotoNext_Appends(recorded, field, rest) ==
    LET s == Len(recorded.ret)
        m == Len(Last(recorded.ret))
    IN  IF field.kind = "model"
        THEN [recorded EXCEPT
                 !.ret[s] = Append(@, Frame(field.ann, field.name, Len(recorded.ret) = 1)),
                 !.cf = NoField,
                 !.parameters = rest]
        ELSE [recorded EXCEPT
                 !.ret[s][m].fields =
                     Append(@, [name |-> field.name, values |-> Unset, field |-> field]),
                 !.cf = [s |-> s, m |-> m, i |-> Len(recorded.ret[s][m].fields) + 1],
                 !.parameters = rest]

\* the step to the model or to the field that field declares; recorded is
\* the state of the loop once the presence of the field before is recorded
GotoNext(recorded, field, rest) ==
    LET name == field.name
        s == Len(recorded.ret)
        m == Len(Last(recorded.ret))
    IN  IF field.kind = "model"
        THEN \* goto next model
             [recorded EXCEPT
                 !.ret[s] = Append(@, Frame(field.ann, name, Len(recorded.ret) = 1)),
                 !.cf = NoField,
                 !.parameters = rest]
        ELSE \* goto next field
             LET new == [name |-> name, values |-> Unset, field |-> field]
                 fields == recorded.ret[s][m].fields
                 same == {i \in 1..Len(fields) : fields[i].name = name}
                 at == IF same = {} THEN Len(fields) + 1
                       ELSE CHOOSE i \in same : \A j \in same : i <= j
             IN  [recorded EXCEPT
                     !.ret[s][m].fields =
                         IF same = {} THEN Append(fields, new)
                         ELSE [fields EXCEPT ![at] = new],
                     !.cf = [s |-> s, m |-> m, i |-> at],
                     !.parameters = rest]

\* the parameter names field number idx of the current model
ParseReference(ps, idx, rest) ==
    GotoNext(RecordPresence(ps), ModelFields(CurrentModel(ps).model)[idx], rest)

\* an enum rule that takes a prefix of a value for the value
ParseEnum_AcceptsPrefix(ps, parameter, rest) ==
    LET enum == FieldAt(ps, ps.cf).field.enum
    IN  IF \E i \in 1..Len(enum) : StartsWith(enum[i], parameter)
        THEN [SaveToCurrent(ps, PyStr(enum[CHOOSE i \in 1..Len(enum) :
                                               StartsWith(enum[i], parameter)]))
                 EXCEPT !.parameters = rest]
        ELSE [ps EXCEPT !.parameters = rest]

\* the last field is an Enumerator
ParseEnum(ps, parameter, rest) ==
    LET enum == FieldAt(ps, ps.cf).field.enum
    IN  IF \E i \in 1..Len(enum) : enum[i] = parameter
        THEN [SaveToCurrent(ps, PyStr(parameter)) EXCEPT !.parameters = rest]
        ELSE IF \E i \in 1..Len(enum) : StartsWith(enum[i], parameter)
        THEN Raise(ps, "FieldLooseMatchOnly", parameter)
        ELSE [ps EXCEPT !.parameters = rest]

\* the parameter partially matches a field name, alias or serialization alias
LooseMatchIn(fs, parameter) ==
    \/ \E i \in 1..Len(fs) : StartsWith(fs[i].name, parameter)
    \/ \E i \in 1..Len(fs) : fs[i].alias # NoAlias /\ StartsWith(fs[i].alias, parameter)
    \/ \E i \in 1..Len(fs) : fs[i].salias # NoAlias /\ StartsWith(fs[i].salias, parameter)

LooseMatch(m, parameter) == LooseMatchIn(ModelFields(m), parameter)

\* a pass that tries the prefixes of the names before the values of the Enum
ParseParameter_PrefixFirst(ps) ==
    LET parameter == Head(ps.parameters)
        rest == Tail(ps.parameters)
        cm == CurrentModel(ps)
        open == ps.cf # NoField
        idx == FieldIndex(cm.model, parameter)
    IN  IF parameter = T_pipe THEN ParsePipe(ps, parameter, rest)
        ELSE IF StartsWith(parameter, <<"{">>) /\ open THEN ParseBracket(ps, parameter, rest, "}")
        ELSE IF StartsWith(parameter, <<"[">>) /\ open THEN ParseBracket(ps, parameter, rest, "]")
        ELSE IF HasChar(parameter, "\"") /\ open THEN ParseQuoted(ps, parameter, rest, "\"")
        ELSE IF HasChar(parameter, "'") /\ open THEN ParseQuoted(ps, parameter, rest, "'")
        ELSE IF ~IsModelClass(cm.model) THEN Raise(ps, "AttributeError", parameter)
        ELSE IF idx # 0 THEN ParseReference(ps, idx, rest)
        ELSE IF LooseMatch(cm.model, parameter) THEN Raise(ps, "FieldLooseMatchOnly", parameter)
        ELSE IF open /\ FieldAt(ps, ps.cf).field.ann = "Enum" THEN ParseEnum(ps, parameter, rest)
        ELSE IF open THEN [SaveToCurrent(ps, PyStr(parameter)) EXCEPT !.parameters = rest]
        ELSE Raise(ps, "FieldKeyError", parameter)

\* a pass that saves a value to the open field before it tries the
\* prefixes of the names
ParseParameter_ValueFirst(ps) ==
    LET parameter == Head(ps.parameters)
        rest == Tail(ps.parameters)
        cm == CurrentModel(ps)
        open == ps.cf # NoField
        idx == FieldIndex(cm.model, parameter)
    IN  IF parameter = T_pipe THEN ParsePipe(ps, parameter, rest)
        ELSE IF StartsWith(parameter, <<"{">>) /\ open THEN ParseBracket(ps, parameter, rest, "}")
        ELSE IF StartsWith(parameter, <<"[">>) /\ open THEN ParseBracket(ps, parameter, rest, "]")
        ELSE IF HasChar(parameter, "\"") /\ open THEN ParseQuoted(ps, parameter, rest, "\"")
        ELSE IF HasChar(parameter, "'") /\ open THEN ParseQuoted(ps, parameter, rest, "'")
        ELSE IF ~IsModelClass(cm.model) THEN Raise(ps, "AttributeError", parameter)
        ELSE IF idx # 0 THEN ParseReference(ps, idx, rest)
        ELSE IF open /\ FieldAt(ps, ps.cf).field.ann = "Enum" THEN ParseEnum(ps, parameter, rest)
        ELSE IF open THEN [SaveToCurrent(ps, PyStr(parameter)) EXCEPT !.parameters = rest]
        ELSE IF LooseMatch(cm.model, parameter) THEN Raise(ps, "FieldLooseMatchOnly", parameter)
        ELSE Raise(ps, "FieldKeyError", parameter)

\* one pass of the body of "while parameters"
ParseParameter(ps) ==
    LET parameter == Head(ps.parameters)
        rest == Tail(ps.parameters)
        cm == CurrentModel(ps)
        open == ps.cf # NoField
        idx == FieldIndex(cm.model, parameter)
    IN  IF parameter = T_pipe THEN ParsePipe(ps, parameter, rest)
        ELSE IF StartsWith(parameter, <<"{">>) /\ open THEN ParseBracket(ps, parameter, rest, "}")
        ELSE IF StartsWith(parameter, <<"[">>) /\ open THEN ParseBracket(ps, parameter, rest, "]")
        ELSE IF HasChar(parameter, "\"") /\ open THEN ParseQuoted(ps, parameter, rest, "\"")
        ELSE IF HasChar(parameter, "'") /\ open THEN ParseQuoted(ps, parameter, rest, "'")
        ELSE IF ~IsModelClass(cm.model) THEN Raise(ps, "AttributeError", parameter)
        ELSE IF idx # 0 THEN ParseReference(ps, idx, rest)
        ELSE IF open /\ FieldAt(ps, ps.cf).field.ann = "Enum" THEN ParseEnum(ps, parameter, rest)
        ELSE IF LooseMatch(cm.model, parameter) THEN Raise(ps, "FieldLooseMatchOnly", parameter)
        ELSE IF open THEN [SaveToCurrent(ps, PyStr(parameter)) EXCEPT !.parameters = rest]
        ELSE Raise(ps, "FieldKeyError", parameter)

RECURSIVE ParseLoop(_)
ParseLoop(ps) ==
    IF ps.parameters = <<>> \/ ps.exc # "" THEN ps ELSE ParseLoop(ParseParameter(ps))

\* after the loop: the presence of the last field is recorded, unless the
\* line asks for help
EndOfParse(done, is_help) ==
    IF done.exc = "" /\ ~is_help THEN RecordPresence(done) ELSE done

\* parse_command(command, is_help = is_help) with self.shell = shell; the
\* result holds ret, and exc, the exception raised ("" when it returns)
ParseCommand(shell, command, is_help) ==
    EndOfParse(
        ParseLoop([ret |-> << <<Frame(shell, NoParameter, TRUE)>> >>,
                   cf |-> NoField,
                   parameters |-> command,
                   exc |-> "", excParameter |-> <<>>,
                   pipeError |-> FALSE]),
        is_help)

(***************************************************************************)
(* pydantic validation, as App._validate_values uses it: model(data).        *)
(***************************************************************************)
\* the value is accepted for a field of this annotation
TypeOk(field, v) ==
    CASE field.ann = "Any" -> TRUE
      [] field.ann = "StrictStr" -> v.t = "str"
      [] field.ann = "StrictInt" -> v.t = "int"
      [] field.ann = "StrictBool" -> v.t = "bool"
      [] field.ann = "Enum" -> v.t = "str" /\ \E i \in 1..Len(field.enum) : field.enum[i] = v.s
      [] OTHER -> TRUE

\* the key pydantic reads a field from: its alias when it has one
ValidationKey(field) == IF field.alias # NoAlias THEN field.alias ELSE field.name

\* the call of the model class with data as keywords raises no ValidationError: every key of data that is a field
\* has a value of the field's type (a dict, validated in turn, for a model),
\* every required field is a key, and the other keys are ignored
RECURSIVE ValidateModel(_, _)
ValidateFields(fs, data) ==
    \A i \in 1..Len(fs) :
        IF ValidationKey(fs[i]) \in DOMAIN data
        THEN IF fs[i].kind = "model"
             THEN /\ data[ValidationKey(fs[i])].t = "dict"
                  /\ ValidateModel(fs[i].ann, data[ValidationKey(fs[i])].d)
             ELSE TypeOk(fs[i], data[ValidationKey(fs[i])])
        ELSE ~fs[i].required

ValidateModel(m, data) == ValidateFields(ModelFields(m), data)

\* {f["name"]: f["values"] for f in fields if f["values"] is not ...}
FieldValues(fields) ==
    LET set == {i \in 1..Len(fields) : fields[i].values # Unset}
    IN  [name \in {fields[i].name : i \in set} |->
            fields[CHOOSE i \in set : fields[i].name = name /\ \A j \in set : fields[j].name = name => j <= i].values]

\* the data dict _validate_values builds from the frames, leaf to root
RECURSIVE ValidationData(_, _)
ValidationData(models, data) ==
    IF models = <<>> THEN data
    ELSE LET model == Last(models)
             merged == Merge(data, FieldValues(model.fields))
         IN  ValidationData(Front(models),
                 IF model.parameter # NoParameter
                 THEN (model.parameter :> PyDict(merged))
                 ELSE merged)

\* _validate_values(models) raises no ValidationError
ValidateValues(shells, shell, models) ==
    IF Len(shells) = 1
    THEN ValidateModel("Root", ValidationData(models, EmptyDict))
    ELSE ValidateModel(shell, ValidationData(models, EmptyDict))

(***************************************************************************)
(* The handlers of the schema.                                             *)
(***************************************************************************)
\* str(value)
RECURSIVE StrOf(_)
StrOf(v) ==
    CASE v.t = "str" -> v.s
      [] v.t = "int" -> StrOfNat(v.i)
      [] v.t = "bool" -> IF v.b THEN <<"T", "r", "u", "e">> ELSE <<"F", "a", "l", "s", "e">>
      [] v.t = "none" -> <<"N", "o", "n", "e">>
      [] v.t = "float" -> v.f
      [] v.t = "list" -> <<"[">> \o JoinSpace([i \in 1..Len(v.l) |-> StrOf(v.l[i])]) \o <<"]">>
      [] OTHER -> <<"<", v.t, ">">>

\* str(data).splitlines()
SplitLines(v) == IF v.t = "text" THEN v.lines ELSE <<StrOf(v)>>

\* [line for line in lines if Keep(line)]
RECURSIVE FilterLines(_, _, _)
FilterLines(lines, pattern, keepIfIn) ==
    IF lines = <<>> THEN <<>>
    ELSE (IF Contains(Head(lines), pattern) = keepIfIn THEN <<Head(lines)>> ELSE <<>>)
         \o FilterLines(Tail(lines), pattern, keepIfIn)

\* Filters.filter_include(data, include = None)
filter_include(data, include) ==
    PyText(FilterLines(SplitLines(data), StrOf(include), TRUE))

\* Filters.filter_exclude(data, exclude = None)
filter_exclude(data, exclude) ==
    PyText(FilterLines(SplitLines(data), StrOf(exclude), FALSE))

\* the text the show_joke handler of the schema returns
Joke == PyText(<< <<"W", "E">>, <<"W">>, <<"E">> >>)

\* what a run handler returns: a text quoting its kwargs
RunResult(model, kw) == [t |-> "result", by |-> model, kw |-> kw]

\* the call of getattr(model, method) with args and kw: exc is the exception the call raises
\* ("" for none), ret the value it returns
Invoke(model, method, args, kw) ==
    CASE method = "run" /\ model = "TabulateTableOutputter" ->
           \* def run(*args, **kwargs): outputter_tabulate_table(data, ...),
           \* which returns data that is no list as it is
           IF Len(args) # 1 \/ ~(DOMAIN kw \subseteq {T_sortby})
           THEN [exc |-> "TypeError", ret |-> PyNone]
           ELSE IF args[1].t = "list"
           THEN [exc |-> "", ret |-> [t |-> "table", of |-> args[1], kw |-> kw]]
           ELSE [exc |-> "", ret |-> args[1]]
      [] method = "run" /\ model # "TabulateTableOutputter" ->
           \* def run: keyword arguments only
           IF Len(args) # 0 THEN [exc |-> "TypeError", ret |-> PyNone]
           ELSE [exc |-> "", ret |-> RunResult(model, kw)]
      [] method = "show_joke" ->
           \* def show_joke: keyword arguments only
           IF Len(args) # 0 THEN [exc |-> "TypeError", ret |-> PyNone]
           ELSE [exc |-> "", ret |-> Joke]
      [] method = "show_g" ->
           \* def show_g(**kwargs)
           IF Len(args) # 0 THEN [exc |-> "TypeError", ret |-> PyNone]
           ELSE [exc |-> "", ret |-> [t |-> "result", by |-> "show_g", kw |-> kw]]
      [] method = "boom" ->
           \* def boom(**kwargs): raise RuntimeError
           [exc |-> "RuntimeError", ret |-> PyNone]
      [] method = "filter_include" ->
           IF Len(args) # 1 \/ ~(DOMAIN kw \subseteq {T_include})
           THEN [exc |-> "TypeError", ret |-> PyNone]
           ELSE [exc |-> "",
                 ret |-> filter_include(args[1],
                            IF T_include \in DOMAIN kw THEN kw[T_include] ELSE PyNone)]
      [] method = "filter_exclude" ->
           IF Len(args) # 1 \/ ~(DOMAIN kw \subseteq {T_exclude})
           THEN [exc |-> "TypeError", ret |-> PyNone]
           ELSE [exc |-> "",
                 ret |-> filter_exclude(args[1],
                            IF T_exclude \in DOMAIN kw THEN kw[T_exclude] ELSE PyNone)]

\* bool(value)
Truthy(v) ==
    CASE v.t = "none" -> FALSE
      [] v.t = "bool" -> v.b
      [] v.t = "int" -> v.i # 0
      [] v.t = "str" -> v.s # <<>>
      [] v.t = "text" -> v.lines # <<>>
      [] v.t = "list" -> v.l # <<>>
      [] v.t = "dict" -> DOMAIN v.d # {}
      [] OTHER -> TRUE

(***************************************************************************)
(* The shell-level defaults.                                               *)
(***************************************************************************)
\* App.defaults_update
defaults_update(shell_defaults, m) == Merge(shell_defaults, ExtractModelDefaults(m))

\* App.defaults_pop
defaults_pop(shell_defaults, m) == Without(shell_defaults, FieldNames(m))

\* a set that clears nothing
defaults_set_Keeps(shell_defaults, m) == Merge(shell_defaults, ExtractModelDefaults(m))

\* App.defaults_set
defaults_set(shell_defaults, m) == defaults_update(EmptyDict, m)

(***************************************************************************)
(* App.default: the execution of a parsed line.  The state of the loop     *)
(* over the pipe segments is a record es: the attributes of the App        *)
(* (shells, shell, prompt, shell_defaults), the locals ret, outputter and  *)
(* outputter_kwargs, and what the line did: calls, the handler calls in    *)
(* order, out, the texts written, exc, the exception that ended it.        *)
(* left_defaults[i] remembers shell_defaults as they were when shells[i]   *)
(* was last the active shell (recorded when a line leaves it for a         *)
(* subshell); it is not a variable of the program.                         *)
(***************************************************************************)
NeverActive == [known |-> FALSE, d |-> EmptyDict]
WhenActive(d) == [known |-> TRUE, d |-> d]

InShells(shells, m) == \E i \in 1..Len(shells) : shells[i] = m

Msg(id, about) == [t |-> "msg", id |-> id, about |-> about]
Written(v) == [kind |-> "write", v |-> v]

\* the string outputter(v, **kwargs) returns
Rendering(outputter, v, kwargs) ==
    [t |-> "rendering", by |-> outputter.name, v |-> v, kwargs |-> kwargs]

\* the call outputter(v, **kwargs) default makes: what the call returns is
\* not used, and nothing is passed to self.write
Rendered(outputter, v, kwargs) ==
    [kind |-> "outputter", outputter |-> outputter, v |-> v, kwargs |-> kwargs]

\* command_arguments
RECURSIVE CommandArguments(_)
CommandArguments(command) ==
    IF command = <<>> THEN EmptyDict
    ELSE Merge(CommandArguments(Front(command)), FieldValues(Last(command).fields))

\* command_defaults
RECURSIVE CommandDefaults(_)
CommandDefaults(command) ==
    IF command = <<>> THEN EmptyDict
    ELSE Merge(CommandDefaults(Front(command)), Last(command).defaults)

\* a loop that pushes no parent
CollectParents_NoPush(es, items) == es

\* "collect parent shells and defaults": the loop over command[:-1]
RECURSIVE CollectParents(_, _)
CollectParents(es, items) ==
    IF items = <<>> THEN es
    ELSE LET m == Head(items).model
             push == IsSubshell(m) /\ ~InShells(es.shells, m)
         IN  CollectParents(
                 [es EXCEPT !.shell_defaults = defaults_update(@, m),
                            !.shells = IF push THEN Append(@, m) ELSE @,
                            !.left_defaults = IF push THEN Append(@, NeverActive) ELSE @],
                 Tail(items))

\* the subshell branch: the line enters the subshell of its last model
EnterSubshell(es, command) ==
    LET model == Last(command).model
        left == [es EXCEPT !.left_defaults[Len(es.shells)] = WhenActive(es.shell_defaults)]
        up == CollectParents(left, Front(command))
    IN  [up EXCEPT
            !.prompt = IF Config(model).prompt # NoPrompt THEN Config(model).prompt ELSE @,
            !.shell = model,
            !.shells = Append(@, model),
            !.left_defaults = Append(@, NeverActive)]

\* the layers the other way round: the shell defaults win
CallKwargs_ShellWins(es, index, command) ==
    Merge(Merge(CommandArguments(command), CommandDefaults(command)), es.shell_defaults)

\* the keyword arguments of the call of segment number index (from 0)
CallKwargs(es, index, command) ==
    IF index = 0
    THEN Merge(Merge(es.shell_defaults, CommandDefaults(command)), CommandArguments(command))
    ELSE Merge(CommandDefaults(command), CommandArguments(command))

\* a call that is never handed the result so far
PositionalArgs_None(es, index) == <<>>

\* the positional arguments of the call: none for the first segment, the
\* result so far for a segment after a pipe
PositionalArgs(es, index) == IF index = 0 THEN <<>> ELSE <<es.ret>>

\* getattr(model, method) called with **kw for the first segment, with ret and **kw after it
\* the call has returned r: ret is its result, unless it raised
Returns(es, call, r) ==
    IF r.exc # ""
    THEN [es EXCEPT !.calls = Append(@, [call EXCEPT !.exc = r.exc]), !.exc = r.exc]
    ELSE [es EXCEPT !.calls = Append(@, call), !.ret = r.ret]

\* the call of getattr(model, method) with the arguments args and kw
Call(es, index, model, method, args, kw) ==
    Returns(es,
            [model |-> model, method |-> method, args |-> args, kw |-> kw,
             index |-> index, exc |-> ""],
            Invoke(model, method, args, kw))

CallHandler(es, index, command, model, method, extra) ==
    Call(es, index, model, method, PositionalArgs(es, index),
         Merge(CallKwargs(es, index, command), IF index = 0 THEN extra ELSE EmptyDict))

\* processor(ret)
Processed(processor, v) == [t |-> "processed", by |-> processor, v |-> v]

RECURSIVE ApplyProcessors(_, _)
ApplyProcessors(v, processors) ==
    IF processors = <<>> THEN v
    ELSE ApplyProcessors(Processed(Head(processors), v), Tail(processors))

\* "run processors from PicleConfig if any for first command only"
RunConfigProcessors(es, index, model) ==
    IF index = 0 /\ Config(model).hasConfig /\ ConfigProcessors(model).has
    THEN [es EXCEPT !.ret = ApplyProcessors(@, ConfigProcessors(model).l)]
    ELSE es

\* "extract outputter": from the result tuple, the field, or PicleConfig
ExtractOutputter(es, index, model, field_outputter, field_kwargs) ==
    IF index # 0 THEN es
    ELSE IF es.ret.t = "tuple"
    THEN IF Len(es.ret.l) = 2
         THEN [es EXCEPT !.ret = es.ret.l[1], !.outputter = es.ret.l[2],
                         !.outputter_kwargs = EmptyDict]
         ELSE IF Len(es.ret.l) = 3
         THEN [es EXCEPT !.ret = es.ret.l[1], !.outputter = es.ret.l[2],
                         !.outputter_kwargs = es.ret.l[3].d]
         ELSE es
    ELSE IF Truthy(field_outputter)
    THEN [es EXCEPT !.outputter = field_outputter, !.outputter_kwargs = field_kwargs]
    ELSE IF Config(model).hasConfig /\ ConfigOutputter(model).has
    THEN [es EXCEPT !.outputter = ConfigOutputter(model).v,
                    !.outputter_kwargs = ConfigOutputter(model).kwargs]
    ELSE es

\* one of the processors raises an exception
ProcessorRaises(processors) == \E i \in 1..Len(processors) : processors[i] = "fail"

\* what follows the call of a handler, unless it raised: the processors of
\* the field, those of PicleConfig, and the outputter
AfterCall(called, index, model, processors, field_outputter, field_kwargs) ==
    IF called.exc # "" THEN called
    ELSE IF ProcessorRaises(processors) THEN [called EXCEPT !.exc = "ProcessorError"]
    ELSE ExtractOutputter(
             RunConfigProcessors(
                 [called EXCEPT !.ret = ApplyProcessors(@, processors)], index, model),
             index, model, field_outputter, field_kwargs)

\* a run branch that calls run whatever _validate_values finds
RunBranch_Unvalidated(es, index, command, model) ==
    AfterCall(CallHandler(es, index, command, model, "run", EmptyDict),
              index, model, <<>>, PyNone, EmptyDict)

\* the branch "elif hasattr(model, 'run')"
RunBranch(es, index, command, model) ==
    IF ~ValidateValues(es.shells, es.shell, command)
    THEN [es EXCEPT !.exc = "ValidationError"]
    ELSE AfterCall(CallHandler(es, index, command, model, "run", EmptyDict),
                   index, model, <<>>, PyNone, EmptyDict)

\* the branch "elif command[-1]['fields']": a Callable field or a field with
\* a "function"
\* the call of the method the last field of the command names
CallFunction(es, index, command, model, last_field) ==
    LET extra == Merge(IF last_field.root_model
                       THEN (<<"root_model">> :> [t |-> "root"]) ELSE EmptyDict,
                       IF last_field.picle_app
                       THEN (<<"picle_app">> :> [t |-> "app"]) ELSE EmptyDict)
        method_name ==
            IF last_field.ann = "Callable" THEN last_field.default.name
            ELSE last_field.function
    IN  IF last_field.ann = "Callable"
        THEN IF last_field.default.t = "method"
                /\ method_name \in Config(model).methods
             THEN CallHandler(es, index, command, model, method_name, extra)
             ELSE [es EXCEPT !.out = Append(@,
                      Written(Msg("has no method defined for Callable field", model)))]
        ELSE IF last_field.function # NoFunction
        THEN IF method_name \in Config(model).methods
             THEN CallHandler(es, index, command, model, method_name, extra)
             ELSE [es EXCEPT !.out = Append(@,
                      Written(Msg("has no method defined for function", model)))]
        ELSE [es EXCEPT !.out = Append(@,
                 Written(Msg("has no 'run' method defined", model)))]

\* the function branch for the last field of the command
FunctionOf(es, index, command, model, last_field) ==
    AfterCall(CallFunction(es, index, command, model, last_field),
              index, model, last_field.processors,
              last_field.outputter, last_field.outputter_kwargs)

FunctionBranch(es, index, command, model) ==
    IF ~ValidateValues(es.shells, es.shell, command)
    THEN [es EXCEPT !.exc = "ValidationError"]
    ELSE FunctionOf(es, index, command, model,
                    ModelFields(model)[FieldIndex(model, Last(Last(command).fields).name)])

\* the last branch: "Incorrect command, provide more arguments"
MoreArgumentsBranch(es, model) ==
    [es EXCEPT !.shell_defaults = defaults_pop(@, model),
               !.ret = Msg("Incorrect command, provide more arguments", model),
               !.broke = TRUE]

\* the body of "for index, command in enumerate(command_models)"
ExecuteSegment(es, index, command) ==
    LET model == Last(command).model
    IN  IF ~IsModelClass(model)
        THEN \* a str has no PicleConfig, no run and no fields bound: the last
             \* branch calls defaults_pop, which reads model.model_fields
             [es EXCEPT !.exc = "AttributeError"]
        ELSE IF DOMAIN CommandArguments(command) = {} /\ IsSubshell(model)
        THEN EnterSubshell(es, command)
        ELSE IF "run" \in Config(model).methods
        THEN RunBranch(es, index, command, model)
        ELSE IF Last(command).fields # <<>>
        THEN FunctionBranch(es, index, command, model)
        ELSE MoreArgumentsBranch(es, model)

RECURSIVE ExecuteSegments(_, _, _)
ExecuteSegments(es, index, command_models) ==
    IF index >= Len(command_models) \/ es.exc # "" \/ es.broke THEN es
    ELSE ExecuteSegments(ExecuteSegment(es, index, command_models[index + 1]),
                         index + 1, command_models)

\* a default that is not wrapped: the exception leaves it
FinishDefault_Unwrapped(es) ==
    IF es.exc # "" THEN [es EXCEPT !.raised = es.exc]
    ELSE IF es.ret = PyBool(TRUE) THEN [es EXCEPT !.stop = TRUE]
    ELSE IF Truthy(es.ret)
    THEN IF es.outputter.t = "callable"
         THEN IF es.outputter.raises
              THEN [es EXCEPT !.exc = "OutputterError", !.raised = "OutputterError"]
              ELSE [es EXCEPT !.out = Append(@, Rendered(es.outputter, es.ret, es.outputter_kwargs))]
         ELSE [es EXCEPT !.out = Append(@, Written(es.ret))]
    ELSE es

\* the end of App.default: "if ret is True: return True", then the output;
\* run_print_exception prints the traceback of what was raised
FinishDefault(es) ==
    IF es.exc # ""
    THEN \* run_print_exception prints the traceback and returns None
         [es EXCEPT !.out = Append(@, [kind |-> "traceback", exc |-> es.exc]), !.stop = FALSE]
    ELSE IF es.ret = PyBool(TRUE) THEN [es EXCEPT !.stop = TRUE]
    ELSE IF Truthy(es.ret)
    THEN IF es.outputter.t = "callable"
         THEN IF es.outputter.raises
              THEN [es EXCEPT !.out = Append(@, [kind |-> "traceback", exc |-> "OutputterError"]),
                              !.exc = "OutputterError", !.stop = FALSE]
              ELSE [es EXCEPT !.out = Append(@, Rendered(es.outputter, es.ret, es.outputter_kwargs))]
         ELSE [es EXCEPT !.out = Append(@, Written(es.ret))]
    ELSE es

\* the names printed after "Incomplete command, possible completions:"
RECURSIVE Completions(_, _)
Completions(fs, parameter) ==
    IF fs = <<>> THEN <<>>
    ELSE (IF StartsWith(Head(fs).name, parameter)
          THEN << IF Head(fs).alias # NoAlias THEN Head(fs).alias
                  ELSE IF Head(fs).salias # NoAlias THEN Head(fs).salias
                  ELSE Head(fs).name >>
          ELSE <<>>)
         \o Completions(Tail(fs), parameter)

\* line.strip().rstrip("?"), as tokens
RECURSIVE RStripQuestion(_)
RStripQuestion(tokens) ==
    IF tokens = <<>> THEN <<>>
    ELSE IF Last(tokens) = <<>> THEN Front(tokens)
    ELSE IF Last(Last(tokens)) = "?"
         THEN RStripQuestion(Append(Front(tokens), Front(Last(tokens))))
    ELSE tokens

\* line.strip().endswith("?")
EndsWithQuestion(tokens) == tokens # <<>> /\ EndsWith(Last(tokens), <<"?">>)

StartState(shells_, shell_, prompt_, shell_defaults_, left_defaults_) ==
    [shells |-> shells_, shell |-> shell_, prompt |-> prompt_,
     shell_defaults |-> shell_defaults_, left_defaults |-> left_defaults_,
     ret |-> PyBool(FALSE), outputter |-> PyNone, outputter_kwargs |-> EmptyDict,
     calls |-> <<>>, out |-> <<>>, exc |-> "", broke |-> FALSE, stop |-> FALSE,
     raised |-> ""]

\* the help printed for what parse_command made of the line
PrintHelp(es, parsed) ==
    IF parsed.exc = "FieldLooseMatchOnly"
    THEN [es EXCEPT !.out = Append(@, Written(Msg("help", parsed.excParameter)))]
    ELSE IF parsed.exc = "FieldKeyError"
    THEN [es EXCEPT !.out = Append(@, Written(Msg("Incorrect command", parsed.excParameter)))]
    ELSE IF parsed.exc # ""
    THEN \* no except clause takes it
         [es EXCEPT !.exc = parsed.exc]
    ELSE [es EXCEPT !.out = Append(@, Written(Msg("help", CurrentModel(parsed).model)))]

\* the branch of a line that ends with "?": inline help
DefaultHelp(es, tokens) ==
    PrintHelp(es, ParseCommand(es.shell, RStripQuestion(tokens), TRUE))

\* the command is run: the message of a parse error, or the loop over the
\* pipe segments
RunCommand(es, parsed) ==
    IF parsed.exc = "FieldLooseMatchOnly"
    THEN [es EXCEPT !.out = Append(@,
             Written(Msg("Incomplete command",
                         Completions(ModelFields(CurrentModel(parsed).model),
                                     parsed.excParameter))))]
    ELSE IF parsed.exc = "FieldKeyError"
    THEN [es EXCEPT !.out = Append(@,
             Written(Msg("Incorrect command", parsed.excParameter)))]
    ELSE IF parsed.exc # ""
    THEN \* no except clause takes it
         [es EXCEPT !.exc = parsed.exc]
    ELSE ExecuteSegments(es, 0, parsed.ret)

\* App.default(line) called in the state es; the result is the state after it
Default(es, tokens) ==
    IF EndsWithQuestion(tokens) THEN FinishDefault(DefaultHelp(es, tokens))
    ELSE FinishDefault(RunCommand(es, ParseCommand(es.shell, tokens, FALSE)))

(***************************************************************************)
(* cmd.Cmd.onecmd: the first word of the line selects do_<word>, and       *)
(* App.default takes every other line.                                     *)
(***************************************************************************)
\* characters of the vocabulary that are not in cmd.Cmd.identchars
NotIdentChars == {"|", "?", "\"", "'", "{", "}", "[", "]", ".", "-", "+", "!", " "}

RECURSIVE IdentPrefix(_)
IdentPrefix(token) ==
    IF token = <<>> \/ Head(token) \in NotIdentChars THEN <<>>
    ELSE <<Head(token)>> \o IdentPrefix(Tail(token))

\* cmd of parseline(line)
CmdOf(tokens) == IdentPrefix(Head(tokens))

\* "?" in arg
QuestionInArg(tokens) ==
    \/ HasChar(SubSeq(Head(tokens), Len(CmdOf(tokens)) + 1, Len(Head(tokens))), "?")
    \/ \E i \in 2..Len(tokens) : HasChar(tokens[i], "?")

BuiltinCommands == {T_exit, T_top, T_end, T_pwd, T_help}

\* arg of parseline(line): what follows the command word
ArgOf(tokens) ==
    (IF Len(CmdOf(tokens)) < Len(Head(tokens))
     THEN <<SubSeq(Head(tokens), Len(CmdOf(tokens)) + 1, Len(Head(tokens)))>>
     ELSE <<>>) \o Tail(tokens)

\* arg.lstrip("?"), as tokens
RECURSIVE LStripQuestion(_)
LStripQuestion(tokens) ==
    IF tokens = <<>> THEN <<>>
    ELSE IF Head(tokens) = <<>> THEN Tail(tokens)
    ELSE IF Head(Head(tokens)) = "?"
         THEN LStripQuestion(<<Tail(Head(tokens))>> \o Tail(tokens))
    ELSE tokens

\* what do_help does with the parsed path: parse_command's exception is not
\* caught; the help is written when the argument is one word at most
HelpFor(es, arg, parsed) ==
    IF parsed.exc # "" THEN [es EXCEPT !.raised = parsed.exc]
    ELSE IF Len(arg) <= 1
    THEN [es EXCEPT !.out = Append(@, Written(Msg("help", CurrentModel(parsed).model)))]
    ELSE es

\* App.do_help
do_help(es, tokens) ==
    HelpFor(es, ArgOf(tokens),
            ParseCommand(es.shell, LStripQuestion(RStripQuestion(ArgOf(tokens))), TRUE))

\* self.shell.PicleConfig.prompt: an AttributeError when the class has none
HasPromptAttribute(m) == Config(m).hasConfig /\ Config(m).prompt # NoPrompt

\* an exit that pops nothing
PopShell_Keeps(es) == es

\* "delete defaults for closing shell" and shells.pop(-1)
PopShell(es) ==
    [es EXCEPT !.shell_defaults = defaults_pop(@, Last(es.shells)),
               !.shells = Front(@),
               !.left_defaults = Front(@)]

\* "if self.shells": the shell below becomes the active one, or the
\* application stops
AfterPop(popped) ==
    IF popped.shells # <<>>
    THEN LET top == Last(popped.shells)
         IN  IF ~HasPromptAttribute(top)
             THEN [popped EXCEPT !.shell = top, !.raised = "AttributeError"]
             ELSE [popped EXCEPT
                      !.shell = top,
                      !.prompt = Config(top).prompt,
                      !.shell_defaults =
                          IF Len(popped.shells) = 1 THEN defaults_set(@, top) ELSE @]
    ELSE [popped EXCEPT !.stop = TRUE]

do_exit(es, tokens) ==
    IF QuestionInArg(tokens)
    THEN [es EXCEPT !.out = Append(@, Written(Msg("exit", "Exit current shell")))]
    ELSE AfterPop(PopShell(es))

do_top(es, tokens) ==
    IF QuestionInArg(tokens)
    THEN [es EXCEPT !.out = Append(@, Written(Msg("top", "Exit to top shell")))]
    ELSE LET top == es.shells[1]
         IN  IF ~HasPromptAttribute(top)
             THEN [es EXCEPT !.shell = top, !.raised = "AttributeError"]
             ELSE [es EXCEPT !.shell = top,
                             !.prompt = Config(top).prompt,
                             !.shells = <<top>>,
                             !.left_defaults = <<NeverActive>>,
                             !.shell_defaults = defaults_set(@, top)]

do_end(es, tokens) ==
    IF QuestionInArg(tokens)
    THEN [es EXCEPT !.out = Append(@, Written(Msg("end", "Exit application")))]
    ELSE [es EXCEPT !.stop = TRUE]

\* "->".join(["Root"] + names of shells[1:])
do_pwd(es, tokens) ==
    IF QuestionInArg(tokens)
    THEN [es EXCEPT !.out = Append(@, Written(Msg("pwd", "Print current shell path")))]
    ELSE [es EXCEPT !.out = Append(@,
             Written(Msg("path", <<"Root">> \o Tail(es.shells))))]

(***************************************************************************)
(* The lines a user types.  A line is a sequence of tokens; the tokens     *)
(* after the first one that parse_command rejects are never looked at, so  *)
(* the lines are those whose proper prefixes parse.                         *)
(***************************************************************************)
Vocabulary == {T_a, T_n, T_b, T_c, T_x, T_f, T_r, T_R, T_4, T_v}

Parses(shell_, tokens) == ParseCommand(shell_, tokens, FALSE).exc = ""

RECURSIVE LinesOfLen(_, _, _)
LinesOfLen(shell_, words, n) ==
    IF n = 0 THEN {<<>>}
    ELSE {Append(l, t) : l \in {p \in LinesOfLen(shell_, words, n - 1) : Parses(shell_, p)},
                         t \in words}

CommandLines(shell_) == UNION {LinesOfLen(shell_, Vocabulary, n) : n \in 1..MaxLineLen}

\* a command followed by "?"
HelpLines(shell_) ==
    {Append(l, T_q) :
        l \in {p \in UNION {LinesOfLen(shell_, Vocabulary, n) : n \in 0..(MaxLineLen - 1)} :
                  Parses(shell_, p)}}

BuiltinLines ==
    {<<c>> : c \in BuiltinCommands} \cup {<<c, T_q>> : c \in BuiltinCommands}

\* what follows a "|": up to MaxSegLen tokens
PipeVocabulary == {T_include, T_exclude, T_W, T_E}

RECURSIVE SegmentsOfLen(_)
SegmentsOfLen(n) ==
    IF n = 0 THEN {<<>>}
    ELSE {Append(l, t) : l \in SegmentsOfLen(n - 1), t \in PipeVocabulary}

PipeSegments == UNION {SegmentsOfLen(n) : n \in 0..MaxSegLen}

RECURSIVE PipeTails(_)
PipeTails(n) ==
    IF n = 0 THEN {<<>>}
    ELSE {<<>>} \cup {<<T_pipe>> \o seg \o rest : seg \in PipeSegments, rest \in PipeTails(n - 1)}

\* the first segment of a piped line
HeadVocabulary == {T_sh, T_j, T_a, T_x, T_4}

PipeHeads(shell_) ==
    {l \in UNION {LinesOfLen(shell_, HeadVocabulary, n) : n \in 1..MaxSegLen} :
        Parses(shell_, l)}

PipedLines(shell_) ==
    {h \o t : h \in PipeHeads(shell_), t \in PipeTails(MaxPipes)}

\* lines that open a field of T and go on with values: enum values, quoted
\* and bracketed values, pipes, names and aliases
ValueVocabulary ==
    {T_nm, T_np, T_n, T_4, T_zz, T_dq_a, T_b_dq, T_dq_c_dq, T_sq_a, T_b_sq, T_sq_c_sq,
     T_br_a, T_b_br, T_pipe, T_e, T_d, T_D}

RECURSIVE ValuesOfLen(_)
ValuesOfLen(n) ==
    IF n = 0 THEN {<<>>}
    ELSE {Append(l, t) : l \in ValuesOfLen(n - 1), t \in ValueVocabulary}

ValueHeads == {<<T_t, T_e>>, <<T_t, T_d>>, <<T_t, T_D>>}

ValueLines ==
    {h \o t : h \in ValueHeads, t \in UNION {ValuesOfLen(n) : n \in 0..MaxValueLen}}

\* lines over T and U, and "help" followed by a path
HandlerVocabulary == {T_t, T_g, T_u, T_w, T_h, T_p, T_o, T_y, T_4, T_zz, T_s}

HandlerLines(shell_) ==
    UNION {LinesOfLen(shell_, HandlerVocabulary, n) : n \in 1..MaxHandlerLen}

\* lines over model_EnumFieldWithSameName: the names of its fields, the
\* values of its Enum, a prefix of both and a word that is neither
EnumVocabulary == {T_task, T_cli, T_cfg, T_client, T_cl, T_zz}

RECURSIVE EnumTails(_)
EnumTails(n) ==
    IF n = 0 THEN {<<>>}
    ELSE {Append(l, t) : l \in EnumTails(n - 1), t \in EnumVocabulary}

EnumLines == {<<T_sn>> \o t : t \in UNION {EnumTails(n) : n \in 0..MaxEnumLen}}

\* lines that pipe the joke to the table outputter and go on: a second
\* "|", the names of the pipe functions and of a field of the outputter, and
\* a value
TableVocabulary == {T_pipe, T_include, T_sortby, T_W}

RECURSIVE TableTails(_)
TableTails(n) ==
    IF n = 0 THEN {<<>>}
    ELSE {Append(l, t) : l \in TableTails(n - 1), t \in TableVocabulary}

TableLines ==
    {<<T_sh, T_j, T_pipe, T_table>> \o t : t \in UNION {TableTails(n) : n \in 0..MaxTableLen}}

HelpCommands(shell_) ==
    {<<T_help>> \o l :
        l \in UNION {LinesOfLen(shell_, HandlerVocabulary, n) : n \in 0..(MaxHandlerLen - 1)}}

(***************************************************************************)
(* The session: cmd.Cmd.cmdloop reads a line, onecmd runs it, and postcmd  *)
(* ends the loop when the command returned True.                           *)
(***************************************************************************)
\* shells, shell, prompt and shell_defaults are the attributes of App; line
\* is the line being run; calls, out, stop and raised are what running it did:
\* the handlers called, the text written, the value onecmd returned and the
\* exception that escaped it.  left_defaults, before and nav remember what
\* the session was, for the properties to refer to.  api is the last call of
\* model_mount or model_remove.
VARIABLES shells, shell, prompt, shell_defaults, left_defaults,
          pc, line, calls, out, stop, raised, before, nav, api

\* the Cache object and its files: clock is time.time(); cache holds the items
\* of the dict and self.metadata; disk holds the data file, the meta file and
\* whether the lock file exists; sync holds where each caller of sync() is;
\* cache_last is the last operation that was made on the cache.
VARIABLES clock, cache, disk, sync, cache_last

cacheVars == <<clock, cache, disk, sync, cache_last>>

\* the files of a ConfigModel: conf holds the main config file, the temp file
\* and the backups .old1, .old2, ...; backup_on_save is the setting of the
\* model's PicleConfig; conf_last is the last operation made on the files.
VARIABLES conf, backup_on_save, conf_last

\* a program that commits twice, rolls back and commits: script holds the
\* step it is at, the configuration its first commit left in the main config
\* file, and the backup number it rolled back to
VARIABLE script

confVars == <<conf, backup_on_save, conf_last, script>>

vars == <<shells, shell, prompt, shell_defaults, left_defaults,
          pc, line, calls, out, stop, raised, before, nav, tree, api, cacheVars, confVars>>

shellVars == <<shells, shell, prompt, shell_defaults, left_defaults,
               pc, line, calls, out, stop, raised, before, nav>>

\* what a line of the shell leaves alone
idle == <<tree, api, cacheVars, confVars>>

session == <<shells, shell, prompt, shell_defaults, left_defaults>>
observed == <<calls, out, stop, raised, before>>

\* before: the session as the running command found it
NoCommand ==
    [known |-> FALSE, shells |-> <<>>, shell |-> "", prompt |-> "",
     shell_defaults |-> EmptyDict, left_defaults |-> <<>>]
Found(es) ==
    [known |-> TRUE, shells |-> es.shells, shell |-> es.shell, prompt |-> es.prompt,
     shell_defaults |-> es.shell_defaults, left_defaults |-> es.left_defaults]

\* nav: fresh when the session got where it is from the top shell by lines
\* that only name nodes, and then path is those lines, joined
AtTop == [fresh |-> TRUE, path |-> <<>>]
Strayed == [fresh |-> FALSE, path |-> <<>>]

(***************************************************************************)
(* App.model_mount and App.model_remove.  tr is model_fields of every      *)
(* model; parent is what the loop holds in parent_model: a model class, or *)
(* the annotation of a field that is no model.                             *)
(***************************************************************************)
TheModel(m) == [isModel |-> TRUE, name |-> m]
AnnotationOf(field) == [isModel |-> field.kind = "model", name |-> field.ann]

\* the place of the key name in the dict fs; 0 when it is no key
KeyIndex(fs, name) ==
    IF \E i \in 1..Len(fs) : fs[i].name = name
    THEN CHOOSE i \in 1..Len(fs) : fs[i].name = name
    ELSE 0

\* dict.pop(key): the dict without the key
Popped(fs, i) == SubSeq(fs, 1, i - 1) \o SubSeq(fs, i + 1, Len(fs))

\* the outcome of a call: the tree it leaves, the exception it raises ("" for
\* none), the value it returns, and the FieldInfo it popped
Outcome(tr, exc, ret, popped) == [tree |-> tr, exc |-> exc, ret |-> ret, popped |-> popped]
NoFieldInfo == <<>>

\* a model_mount that goes on with the root when a segment is missing
RECURSIVE MountLoop_SkipsMissing(_, _, _, _)
MountLoop_SkipsMissing(tr, parent, model, path) ==
    IF path = <<>> THEN Outcome(tr, "", PyNone, NoFieldInfo)
    ELSE IF ~parent.isModel THEN Outcome(tr, "AttributeError", PyNone, NoFieldInfo)
    ELSE IF KeyIndex(tr[parent.name], Head(path)) # 0
    THEN MountLoop_SkipsMissing(
             tr, AnnotationOf(tr[parent.name][KeyIndex(tr[parent.name], Head(path))]),
             model, Tail(path))
    ELSE IF Len(Tail(path)) > 0
    THEN MountLoop_SkipsMissing(tr, parent, model, Tail(path))
    ELSE Outcome([tr EXCEPT ![parent.name] = Append(@, ModelField(Head(path), model))],
                 "", PyNone, NoFieldInfo)

\* the loop "while path" of model_mount
RECURSIVE MountLoop(_, _, _, _)
MountLoop(tr, parent, model, path) ==
    IF path = <<>> THEN Outcome(tr, "", PyNone, NoFieldInfo)
    ELSE IF ~parent.isModel THEN Outcome(tr, "AttributeError", PyNone, NoFieldInfo)
    ELSE IF KeyIndex(tr[parent.name], Head(path)) # 0
    THEN MountLoop(tr, AnnotationOf(tr[parent.name][KeyIndex(tr[parent.name], Head(path))]),
                   model, Tail(path))
    ELSE IF Len(Tail(path)) > 0
    THEN Outcome(tr, "KeyError", PyNone, NoFieldInfo)
    ELSE Outcome([tr EXCEPT ![parent.name] = Append(@, ModelField(Head(path), model))],
                 "", PyNone, NoFieldInfo)

\* App.model_mount(model, path), the root of the shell being Root
model_mount(tr, model, path) == MountLoop(tr, TheModel("Root"), model, path)

\* a model_remove that pops nothing
RECURSIVE RemoveLoop_Keeps(_, _, _)
RemoveLoop_Keeps(tr, parent, path) ==
    IF path = <<>> THEN Outcome(tr, "", PyNone, NoFieldInfo)
    ELSE IF ~parent.isModel THEN Outcome(tr, "AttributeError", PyNone, NoFieldInfo)
    ELSE IF KeyIndex(tr[parent.name], Head(path)) # 0
    THEN IF Len(Tail(path)) = 0
         THEN Outcome(tr, "", PyNone, tr[parent.name][KeyIndex(tr[parent.name], Head(path))])
         ELSE RemoveLoop_Keeps(
                  tr, AnnotationOf(tr[parent.name][KeyIndex(tr[parent.name], Head(path))]),
                  Tail(path))
    ELSE Outcome(tr, "KeyError", PyNone, NoFieldInfo)

\* the loop "while path" of model_remove; the function has no return
\* statement, so what it returns is None
RECURSIVE RemoveLoop(_, _, _)
RemoveLoop(tr, parent, path) ==
    IF path = <<>> THEN Outcome(tr, "", PyNone, NoFieldInfo)
    ELSE IF ~parent.isModel THEN Outcome(tr, "AttributeError", PyNone, NoFieldInfo)
    ELSE IF KeyIndex(tr[parent.name], Head(path)) # 0
    THEN IF Len(Tail(path)) = 0
         THEN Outcome([tr EXCEPT ![parent.name] =
                           Popped(@, KeyIndex(tr[parent.name], Head(path)))],
                      "", PyNone, tr[parent.name][KeyIndex(tr[parent.name], Head(path))])
         ELSE RemoveLoop(tr, AnnotationOf(tr[parent.name][KeyIndex(tr[parent.name], Head(path))]),
                         Tail(path))
    ELSE Outcome(tr, "KeyError", PyNone, NoFieldInfo)

\* App.model_remove(path)
model_remove(tr, path) == RemoveLoop(tr, TheModel("Root"), path)

\* the paths and the lines of the mounts
PathVocabulary == {T_m, T_t, T_x}

RECURSIVE PathsOfLen(_)
PathsOfLen(n) ==
    IF n = 0 THEN {<<>>}
    ELSE {Append(l, t) : l \in PathsOfLen(n - 1), t \in PathVocabulary}

Paths == UNION {PathsOfLen(n) : n \in 1..MaxPathLen}

\* "<path> param v"
MountLines == {path \o <<T_param, T_v>> : path \in Paths}

\* how many fields the tree has that no class declares
RECURSIVE SumOver(_, _)
SumOver(f, S) ==
    IF S = {} THEN 0
    ELSE LET m == CHOOSE m \in S : TRUE IN f[m] + SumOver(f, S \ {m})

Mounted(tr) ==
    SumOver([m \in Models |->
                Cardinality({i \in 1..Len(tr[m]) :
                                \A j \in 1..Len(DeclaredFields(m)) :
                                    DeclaredFields(m)[j] # tr[m][i]})],
            Models)

\* no call of model_mount or model_remove yet
NoCall ==
    [op |-> "", path |-> <<>>, exc |-> "", ret |-> PyNone, popped |-> NoFieldInfo,
     was |-> <<>>]

\* the call op(path) with its outcome, made when the tree was tr
Called(op, path, outcome, tr) ==
    [op |-> op, path |-> path, exc |-> outcome.exc, ret |-> outcome.ret,
     popped |-> outcome.popped, was |-> tr]

(***************************************************************************)
(* picle.cache.Cache                                                       *)
(***************************************************************************)
CacheKeys == {"k1", "k2"}
CacheValues == {"v"}
Callers == 1..NumCallers

\* self.metadata[key] = {"age": time.time(), "ttl": self.ttl}
MetaOf(age, ttl) == [age |-> age, ttl |-> ttl]

\* the test "ttl > time.time() - age" of __getitem__ and of sync
TtlTest(meta, now) == meta.ttl > now - meta.age

\* the result of an operation on the object c: the object it leaves, the
\* exception it raises and the value it returns
CacheResult(c, exc, ret) == [cache |-> c, exc |-> exc, ret |-> ret]

\* a __getitem__ that takes a key for alive when the test fails
GetItem_Inverted(c, key, now) ==
    IF key \notin DOMAIN c.items THEN CacheResult(c, "KeyError", PyNone)
    ELSE IF ~TtlTest(c.metadata[key], now)
    THEN CacheResult(c, "", c.items[key])
    ELSE CacheResult([items |-> Without(c.items, {key}),
                      metadata |-> Without(c.metadata, {key})], "KeyError", PyNone)

\* Cache.__getitem__(key) at the time now
GetItem(c, key, now) ==
    IF key \notin DOMAIN c.items THEN CacheResult(c, "KeyError", PyNone)
    ELSE IF TtlTest(c.metadata[key], now)
    THEN CacheResult(c, "", c.items[key])
    ELSE CacheResult([items |-> Without(c.items, {key}),
                      metadata |-> Without(c.metadata, {key})], "KeyError", PyNone)

\* Cache.__setitem__(key, val) at the time now
SetItem(c, key, val, now) ==
    CacheResult([items |-> Merge(c.items, key :> val),
                 metadata |-> Merge(c.metadata, key :> MetaOf(now, TimeToLive))],
                "", PyNone)

\* the loop "for k in list(self.metadata.keys())" of sync: the keys that pass
\* the test are popped from the dict and from the metadata; self.pop(k)
\* raises KeyError when the dict has no such key
ExpireLoop(c, now) ==
    IF \E k \in DOMAIN c.metadata : TtlTest(c.metadata[k], now) /\ k \notin DOMAIN c.items
    THEN CacheResult(c, "KeyError", PyNone)
    ELSE CacheResult(
             [items |-> Without(c.items, {k \in DOMAIN c.metadata : TtlTest(c.metadata[k], now)}),
              metadata |-> Without(c.metadata,
                                   {k \in DOMAIN c.metadata : TtlTest(c.metadata[k], now)})],
             "", PyNone)

\* a caller of sync(): where it is, the passes of the wait loop it made, and
\* the exception it is raising
NotSyncing == [at |-> "idle", elapsed |-> 0, exc |-> ""]

\* the last operation on the cache: the object as the operation found it,
\* the time, and the outcome
NoOperation ==
    [op |-> "", key |-> "", exc |-> "", ret |-> PyNone,
     was |-> [items |-> EmptyDict, metadata |-> EmptyDict], now |-> 0]
Operation(op, key, result, was, now) ==
    [op |-> op, key |-> key, exc |-> result.exc, ret |-> result.ret, was |-> was, now |-> now]

\* Cache.__init__ on a directory that has no files of the cache
InitCache ==
    /\ clock = 0
    /\ cache = [items |-> EmptyDict, metadata |-> EmptyDict]
    /\ disk = [data |-> EmptyDict, meta |-> EmptyDict, lock |-> FALSE]
    /\ sync = [p \in Callers |-> NotSyncing]
    /\ cache_last = NoOperation

(***************************************************************************)
(* picle.models.ConfigModel                                                *)
(***************************************************************************)
\* a file is absent, or blank as Path.touch leaves it, or holds the YAML
\* document that yaml.safe_dump wrote for a dict
Absent == [t |-> "absent"]
Blank == [t |-> "blank"]
Yaml(d) == [t |-> "yaml", d |-> d]

\* the names of the backup files that the model follows: one more than the
\* largest setting
BackupNumbers == 1..(MaxBackups + 1)

\* "yaml.safe_load(f) or {}" on a file that exists
Loaded(file) == IF file.t = "yaml" THEN file.d ELSE EmptyDict

\* the outcome of an operation on the files f: the files it leaves and the
\* value it returns
ConfResult(f, ret) == [files |-> f, ret |-> ret]

\* ConfigModel.load_config(config_file): a file that does not exist is
\* created blank
load_config(f, name) ==
    IF f[name] = Absent
    THEN ConfResult([f EXCEPT ![name] = Blank], EmptyDict)
    ELSE ConfResult(f, Loaded(f[name]))

\* load_config of the backup .old<i>
load_backup(f, i) == Loaded(f.old[i])

\* "for i in range(backup_on_save - 1, 0, -1)" of save_config, from i down
RECURSIVE RotateLoop(_, _)
RotateLoop(old, i) ==
    IF i < 1 THEN old
    ELSE IF old[i] # Absent
    THEN RotateLoop([old EXCEPT ![i + 1] = old[i], ![i] = Absent], i - 1)
    ELSE RotateLoop(old, i - 1)

\* a save_config that makes the copy .old1 and rotates nothing
save_config_Unrotated(f, d, n) ==
    ConfResult(
        [f EXCEPT !.main = Yaml(d),
                  !.old = IF n # 0 /\ f.main # Absent
                          THEN [@ EXCEPT ![1] = f.main]
                          ELSE @],
        "Saved config to")

\* ConfigModel.save_config(config_file, config_data, backup_on_save)
save_config(f, d, n) ==
    ConfResult(
        [f EXCEPT !.main = Yaml(d),
                  !.old = IF n # 0 /\ f.main # Absent
                          THEN [RotateLoop([@ EXCEPT ![n] = Absent], n - 1)
                                    EXCEPT ![1] = f.main]
                          ELSE @],
        "Saved config to")

\* ConfigModel.update_nested_value(data, path, value) for the paths of one
\* key: the value is a dict (the kwargs), which is merged into a dict that
\* is there
update_nested_value(d, path, value) ==
    IF path = <<>> THEN d
    ELSE IF path[1] \in DOMAIN d
    THEN Merge(d, path[1] :> Merge(d[path[1]], value))
    ELSE Merge(d, path[1] :> value)

\* a run that edits the main config file
run_Direct(f, path, kwargs) ==
    ConfResult(
        [load_config(f, "main").files EXCEPT
            !.main = Yaml(update_nested_value(load_config(f, "main").ret, path, kwargs))],
        "Configuration updated (uncommitted).")

\* ConfigModel.run(shell_command, **kwargs)
run(f, path, kwargs) ==
    ConfResult(
        IF f.temp # Absent
        THEN [f EXCEPT !.temp = Yaml(update_nested_value(Loaded(f.temp), path, kwargs))]
        ELSE [load_config(f, "main").files EXCEPT
                 !.temp = Yaml(update_nested_value(load_config(f, "main").ret, path, kwargs))],
        "Configuration updated (uncommitted).")

\* ConfigModel.erase_config(shell_command)
erase_config(f) ==
    ConfResult([f EXCEPT !.temp = Yaml(EmptyDict)], "Configuration cleared (uncommitted).")

\* ConfigModel.clear_changes_config(shell_command)
clear_changes_config(f) ==
    IF f.temp = Absent THEN ConfResult(f, "No uncommitted changes to discard")
    ELSE ConfResult([f EXCEPT !.temp = Absent], "Uncommitted changes discarded")

\* a commit_config that leaves the temp file
commit_config_KeepsTemp(f, n) ==
    IF f.temp = Absent THEN ConfResult(f, "No uncommitted changes to commit")
    ELSE ConfResult(save_config(f, Loaded(f.temp), n).files,
                    "Configuration committed successfully")

\* ConfigModel.commit_config(shell_command), no commit_hook being set
commit_config(f, n) ==
    IF f.temp = Absent THEN ConfResult(f, "No uncommitted changes to commit")
    ELSE ConfResult([save_config(f, Loaded(f.temp), n).files EXCEPT !.temp = Absent],
                    "Configuration committed successfully")

\* a rollback_config that takes the newest backup, whatever the number
rollback_config_Newest(f, rollback) ==
    IF f.old[1] = Absent THEN ConfResult(f, "Backup file not found")
    ELSE ConfResult([f EXCEPT !.temp = Yaml(load_backup(f, 1))],
                    "Loaded backup into temp config.")

\* ConfigModel.rollback_config(shell_command, rollback)
rollback_config(f, rollback) ==
    IF f.old[rollback] = Absent THEN ConfResult(f, "Backup file not found")
    ELSE ConfResult([f EXCEPT !.temp = Yaml(load_backup(f, rollback))],
                    "Loaded backup into temp config.")

\* the sections, keys and values of the configurations that are written
ConfSections == {"logging"}
ConfKwargs == {("severity" :> "debug"), ("severity" :> "info"), ("file" :> "log")}
ConfPaths == {<<>>} \cup {<<sec>> : sec \in ConfSections}
SavedConfigs == {EmptyDict} \cup {("logging" :> kw) : kw \in ConfKwargs}

NoFiles == [main |-> Absent, temp |-> Absent, old |-> [i \in BackupNumbers |-> Absent]]

\* the last operation on the files: the files as it found them, its
\* arguments and what it returned
NoConfOperation ==
    [op |-> "", path |-> <<>>, kwargs |-> EmptyDict, rollback |-> 0, ret |-> "",
     was |-> NoFiles]
ConfOperation(op, path, kwargs, result, was) ==
    [op |-> op, path |-> path, kwargs |-> kwargs, rollback |-> 0, ret |-> result.ret,
     was |-> was]
RollbackOperation(rollback, result, was) ==
    [ConfOperation("rollback_config", <<>>, EmptyDict, result, was)
        EXCEPT !.rollback = rollback]

\* the program has not begun
NotBegun == [at |-> 0, v1 |-> EmptyDict, rollback |-> 0]

\* a directory with no config file yet, or with a config file someone wrote
InitConfigModel(n, main) ==
    /\ conf = [NoFiles EXCEPT !.main = main]
    /\ backup_on_save = n
    /\ conf_last = NoConfOperation
    /\ script = NotBegun

\* App.__init__
InitApp ==
    /\ shells = <<"Root">>
    /\ shell = "Root"
    /\ prompt = (IF Config("Root").hasConfig /\ Config("Root").prompt # NoPrompt
                 THEN Config("Root").prompt ELSE "picle#")
    /\ shell_defaults = EmptyDict
    /\ left_defaults = <<NeverActive>>
    /\ pc = "input"
    /\ line = <<>>
    /\ calls = <<>>
    /\ out = <<>>
    /\ stop = FALSE
    /\ raised = ""
    /\ before = NoCommand
    /\ nav = AtTop
    /\ tree = [m \in Models |-> DeclaredFields(m)]
    /\ api = NoCall
    /\ InitCache

\* the program starts in a directory without config file
Init == InitApp /\ InitConfigModel(MaxBackups, Absent)

\* the program starts with a model whose PicleConfig sets backup_on_save
InitConfigured ==
    /\ InitApp
    /\ \E n \in 0..MaxBackups, main \in {Absent, Yaml("version" :> ("number" :> "0"))} :
          InitConfigModel(n, main)

Current == StartState(shells, shell, prompt, shell_defaults, left_defaults)

\* the state App.__init__ leaves
Started == StartState(<<"Root">>, "Root", Config("Root").prompt, EmptyDict, <<NeverActive>>)

\* the parsed line names nodes only, down to a subshell
NodesOnly(parsed) ==
    /\ parsed.exc = ""
    /\ \A i \in 1..Len(parsed.ret[1]) : parsed.ret[1][i].fields = <<>>
    /\ IsSubshell(CurrentModel(parsed).model)

\* the line names nodes only, down to a subshell
NamesPath(shell_, tokens) ==
    /\ ~EndsWithQuestion(tokens)
    /\ \A i \in 1..Len(tokens) : tokens[i] # T_pipe
    /\ NodesOnly(ParseCommand(shell_, tokens, FALSE))

SameSession(es, fs) ==
    /\ es.shells = fs.shells
    /\ es.shell = fs.shell
    /\ es.prompt = fs.prompt
    /\ es.shell_defaults = fs.shell_defaults

Navigated(es) ==
    IF SameSession(es, Current) /\ es.raised = "" THEN nav
    ELSE IF CmdOf(line) = T_top /\ es.raised = "" THEN AtTop
    ELSE IF nav.fresh /\ CmdOf(line) \notin BuiltinCommands /\ NamesPath(shell, line)
    THEN [fresh |-> TRUE, path |-> nav.path \o line]
    ELSE Strayed

\* the command has run: its effects, and where the loop goes next
Ran(es) ==
    /\ shells' = es.shells
    /\ shell' = es.shell
    /\ prompt' = es.prompt
    /\ shell_defaults' = es.shell_defaults
    /\ left_defaults' = es.left_defaults
    /\ calls' = es.calls
    /\ out' = es.out
    /\ stop' = es.stop
    /\ raised' = es.raised
    /\ before' = Found(Current)
    /\ nav' = Navigated(es)
    /\ pc' = (IF es.raised # "" THEN "crashed" ELSE "postcmd")
    /\ UNCHANGED <<line, idle>>

\* cmd.Cmd.onecmd(line): do_<cmd> when the class has it, else default
onecmd(es, tokens) ==
    IF CmdOf(tokens) = T_exit THEN do_exit(es, tokens)
    ELSE IF CmdOf(tokens) = T_top THEN do_top(es, tokens)
    ELSE IF CmdOf(tokens) = T_end THEN do_end(es, tokens)
    ELSE IF CmdOf(tokens) = T_pwd THEN do_pwd(es, tokens)
    ELSE IF CmdOf(tokens) = T_help THEN do_help(es, tokens)
    ELSE Default(es, tokens)

\* the user nests shells MaxDepth deep at most
WithinDepth(l) == Len(onecmd(Current, l).shells) <= MaxDepth

ReadLine ==
    /\ pc = "input"
    /\ \E l \in CommandLines(shell) \cup HelpLines(shell) \cup BuiltinLines :
          WithinDepth(l) /\ line' = l
    /\ pc' = "onecmd"
    /\ UNCHANGED <<session, observed, nav, idle>>

ReadPipedLine ==
    /\ pc = "input"
    /\ \E l \in PipedLines(shell) : WithinDepth(l) /\ line' = l
    /\ pc' = "onecmd"
    /\ UNCHANGED <<session, observed, nav, idle>>

\* the user types a "|" and nothing else
ReadBarePipe ==
    /\ pc = "input"
    /\ WithinDepth(<<T_pipe>>)
    /\ line' = <<T_pipe>>
    /\ pc' = "onecmd"
    /\ UNCHANGED <<session, observed, nav, idle>>

ReadValueLine ==
    /\ pc = "input"
    /\ \E l \in ValueLines : line' = l
    /\ pc' = "onecmd"
    /\ UNCHANGED <<session, observed, nav, idle>>

ReadEnumLine ==
    /\ pc = "input"
    /\ \E l \in EnumLines : line' = l
    /\ pc' = "onecmd"
    /\ UNCHANGED <<session, observed, nav, idle>>

ReadTableLine ==
    /\ pc = "input"
    /\ \E l \in TableLines : line' = l
    /\ pc' = "onecmd"
    /\ UNCHANGED <<session, observed, nav, idle>>

ReadHandlerLine ==
    /\ pc = "input"
    /\ \E l \in HandlerLines(shell) \cup HelpCommands(shell) : line' = l
    /\ pc' = "onecmd"
    /\ UNCHANGED <<session, observed, nav, idle>>

DoExit == pc = "onecmd" /\ CmdOf(line) = T_exit /\ Ran(do_exit(Current, line))
DoTop == pc = "onecmd" /\ CmdOf(line) = T_top /\ Ran(do_top(Current, line))
DoEnd == pc = "onecmd" /\ CmdOf(line) = T_end /\ Ran(do_end(Current, line))
DoPwd == pc = "onecmd" /\ CmdOf(line) = T_pwd /\ Ran(do_pwd(Current, line))
DoHelp == pc = "onecmd" /\ CmdOf(line) = T_help /\ Ran(do_help(Current, line))
DoDefault == pc = "onecmd" /\ CmdOf(line) \notin BuiltinCommands /\ Ran(Default(Current, line))

\* stop = self.postcmd(stop, line); the loop goes on while stop is false
PostCmd ==
    /\ pc = "postcmd"
    /\ pc' = (IF stop THEN "stopped" ELSE "input")
    /\ line' = <<>>
    /\ calls' = <<>>
    /\ out' = <<>>
    /\ before' = NoCommand
    /\ UNCHANGED <<session, stop, raised, nav, idle>>

\* the program calls model_mount or model_remove between two lines
ModelMount ==
    /\ pc = "input"
    /\ Mounted(tree) < MaxMounted
    /\ \E path \in Paths :
          /\ tree' = model_mount(tree, "test_mount_model", path).tree
          /\ api' = Called("model_mount", path,
                           model_mount(tree, "test_mount_model", path), tree)
    /\ UNCHANGED <<shellVars, cacheVars, confVars>>

ModelRemove ==
    /\ pc = "input"
    /\ \E path \in Paths :
          /\ tree' = model_remove(tree, path).tree
          /\ api' = Called("model_remove", path, model_remove(tree, path), tree)
    /\ UNCHANGED <<shellVars, cacheVars, confVars>>

ReadMountLine ==
    /\ pc = "input"
    /\ \E l \in MountLines : line' = l
    /\ pc' = "onecmd"
    /\ UNCHANGED <<session, observed, nav, idle>>

Next == ReadLine \/ DoExit \/ DoTop \/ DoEnd \/ DoPwd \/ DoDefault \/ PostCmd

Spec == Init /\ [][Next]_vars

\* sessions of piped lines
NextPipe == ReadPipedLine \/ DoDefault \/ PostCmd

SpecPipe == Init /\ [][NextPipe]_vars

\* sessions of piped lines and of lines that are a "|" only
NextBarePipe == ReadPipedLine \/ ReadBarePipe \/ DoDefault \/ PostCmd

SpecBarePipe == Init /\ [][NextBarePipe]_vars

\* sessions of lines that give values to the fields of T
NextValues == ReadValueLine \/ DoDefault \/ PostCmd

SpecValues == Init /\ [][NextValues]_vars

\* sessions of lines that name the fields of model_EnumFieldWithSameName and
\* the values of its Enum
NextEnum == ReadEnumLine \/ DoDefault \/ PostCmd

SpecEnum == Init /\ [][NextEnum]_vars

\* sessions of lines that pipe a result to the table outputter
NextTable == ReadTableLine \/ DoDefault \/ PostCmd

SpecTable == Init /\ [][NextTable]_vars

\* sessions of lines that call the handlers of T and U, and of "help"
NextHandlers == ReadHandlerLine \/ DoHelp \/ DoDefault \/ PostCmd

SpecHandlers == Init /\ [][NextHandlers]_vars

\* the session of the mounts
NextMount == ModelMount \/ ModelRemove \/ ReadMountLine \/ DoDefault \/ PostCmd

SpecMount == Init /\ [][NextMount]_vars

(***************************************************************************)
(* The use of a Cache: items are set and read while time passes, and the   *)
(* callers of sync() run one step at a time.                               *)
(***************************************************************************)
notCache == <<shellVars, tree, api, confVars>>

Tick ==
    /\ clock < MaxTime
    /\ clock' = clock + 1
    /\ UNCHANGED <<cache, disk, sync, cache_last, notCache>>

CacheSet ==
    /\ \E key \in CacheKeys, val \in CacheValues :
          /\ cache' = SetItem(cache, key, val, clock).cache
          /\ cache_last' = Operation("setitem", key, SetItem(cache, key, val, clock),
                                     cache, clock)
    /\ UNCHANGED <<clock, disk, sync, notCache>>

CacheGet ==
    /\ \E key \in CacheKeys :
          /\ cache' = GetItem(cache, key, clock).cache
          /\ cache_last' = Operation("getitem", key, GetItem(cache, key, clock), cache, clock)
    /\ UNCHANGED <<clock, disk, sync, notCache>>

\* sync() is called
SyncCall ==
    /\ \E p \in Callers :
          /\ sync[p].at = "idle"
          /\ sync' = [sync EXCEPT ![p] = [at |-> "wait", elapsed |-> 0, exc |-> ""]]
    /\ UNCHANGED <<clock, cache, disk, cache_last, notCache>>

\* "while timeout > elapsed: if not os.path.exists(self.lockfile)": the
\* caller goes on to create the lock file, or sleeps, or raises TimeoutError
SyncWait ==
    /\ \E p \in Callers :
          /\ sync[p].at = "wait"
          /\ sync' = [sync EXCEPT ![p] =
                         IF sync[p].elapsed >= MaxTries
                         THEN [@ EXCEPT !.at = "finally", !.exc = "TimeoutError"]
                         ELSE IF ~disk.lock THEN [@ EXCEPT !.at = "lock"]
                         ELSE [@ EXCEPT !.elapsed = @ + 1]]
    /\ UNCHANGED <<clock, cache, disk, cache_last, notCache>>

\* "with open(self.lockfile, mode='w')": the lock file is created, or
\* truncated when it exists
SyncLock ==
    /\ \E p \in Callers :
          /\ sync[p].at = "lock"
          /\ sync' = [sync EXCEPT ![p].at = "expire"]
    /\ disk' = [disk EXCEPT !.lock = TRUE]
    /\ UNCHANGED <<clock, cache, cache_last, notCache>>

\* "check if any of the keys have TTL expired"
SyncExpire ==
    /\ \E p \in Callers :
          /\ sync[p].at = "expire"
          /\ sync' = [sync EXCEPT ![p] =
                         IF ExpireLoop(cache, clock).exc # ""
                         THEN [@ EXCEPT !.at = "finally", !.exc = ExpireLoop(cache, clock).exc]
                         ELSE [@ EXCEPT !.at = "meta"]]
    /\ cache' = ExpireLoop(cache, clock).cache
    /\ cache_last' = Operation("expire", "", ExpireLoop(cache, clock), cache, clock)
    /\ UNCHANGED <<clock, disk, notCache>>

\* "save metadata"
SyncWriteMeta ==
    /\ \E p \in Callers :
          /\ sync[p].at = "meta"
          /\ sync' = [sync EXCEPT ![p].at = "data"]
    /\ disk' = [disk EXCEPT !.meta = cache.metadata]
    /\ UNCHANGED <<clock, cache, cache_last, notCache>>

\* "dump in-memory data into file"
SyncWriteData ==
    /\ \E p \in Callers :
          /\ sync[p].at = "data"
          /\ sync' = [sync EXCEPT ![p].at = "finally"]
    /\ disk' = [disk EXCEPT !.data = cache.items]
    /\ UNCHANGED <<clock, cache, cache_last, notCache>>

\* "finally: os.remove(self.lockfile)", a missing file being ignored; sync
\* returns, or the exception goes on to the caller
SyncFinally ==
    /\ \E p \in Callers :
          /\ sync[p].at = "finally"
          /\ sync' = [sync EXCEPT ![p] = NotSyncing]
    /\ disk' = [disk EXCEPT !.lock = FALSE]
    /\ UNCHANGED <<clock, cache, cache_last, notCache>>

NextCache ==
    \/ Tick \/ CacheSet \/ CacheGet
    \/ SyncCall \/ SyncWait \/ SyncLock \/ SyncExpire \/ SyncWriteMeta \/ SyncWriteData
    \/ SyncFinally

SpecCache == Init /\ [][NextCache]_vars

(***************************************************************************)
(* The use of a ConfigModel: edits are staged, erased, discarded, committed *)
(* and rolled back.                                                        *)
(***************************************************************************)
notConf == <<shellVars, tree, api, cacheVars>>

ConfigRun ==
    /\ \E path \in ConfPaths, kwargs \in ConfKwargs :
          /\ conf' = run(conf, path, kwargs).files
          /\ conf_last' = ConfOperation("run", path, kwargs, run(conf, path, kwargs), conf)
    /\ UNCHANGED <<backup_on_save, script, notConf>>

EraseConfig ==
    /\ conf' = erase_config(conf).files
    /\ conf_last' = ConfOperation("erase_config", <<>>, EmptyDict, erase_config(conf), conf)
    /\ UNCHANGED <<backup_on_save, script, notConf>>

ClearChangesConfig ==
    /\ conf' = clear_changes_config(conf).files
    /\ conf_last' = ConfOperation("clear_changes_config", <<>>, EmptyDict,
                                  clear_changes_config(conf), conf)
    /\ UNCHANGED <<backup_on_save, script, notConf>>

CommitConfig ==
    /\ conf' = commit_config(conf, backup_on_save).files
    /\ conf_last' = ConfOperation("commit_config", <<>>, EmptyDict,
                                  commit_config(conf, backup_on_save), conf)
    /\ UNCHANGED <<backup_on_save, script, notConf>>

RollbackConfig ==
    /\ \E rollback \in BackupNumbers :
          /\ conf' = rollback_config(conf, rollback).files
          /\ conf_last' = RollbackOperation(rollback, rollback_config(conf, rollback), conf)
    /\ UNCHANGED <<backup_on_save, script, notConf>>

NextConfig == ConfigRun \/ EraseConfig \/ ClearChangesConfig \/ CommitConfig \/ RollbackConfig

SpecConfig == InitConfigured /\ [][NextConfig]_vars

\* the program stages an edit, for its first and for its second commit
ScriptStage ==
    /\ script.at \in {0, 2}
    /\ \E path \in ConfPaths, kwargs \in ConfKwargs :
          /\ conf' = run(conf, path, kwargs).files
          /\ conf_last' = ConfOperation("run", path, kwargs, run(conf, path, kwargs), conf)
    /\ script' = [script EXCEPT !.at = @ + 1]
    /\ UNCHANGED <<backup_on_save, notConf>>

\* the program commits: what it staged first, what it staged next, what it
\* rolled back to
ScriptCommit ==
    /\ script.at \in {1, 3, 5}
    /\ conf' = commit_config(conf, backup_on_save).files
    /\ conf_last' = ConfOperation("commit_config", <<>>, EmptyDict,
                                  commit_config(conf, backup_on_save), conf)
    /\ script' = [script EXCEPT
                     !.at = @ + 1,
                     !.v1 = IF script.at = 1
                            THEN Loaded(commit_config(conf, backup_on_save).files.main)
                            ELSE @]
    /\ UNCHANGED <<backup_on_save, notConf>>

\* the program rolls back
ScriptRollback ==
    /\ script.at = 4
    /\ \E rollback \in BackupNumbers :
          /\ conf' = rollback_config(conf, rollback).files
          /\ conf_last' = RollbackOperation(rollback, rollback_config(conf, rollback), conf)
          /\ script' = [script EXCEPT !.at = 5, !.rollback = rollback]
    /\ UNCHANGED <<backup_on_save, notConf>>

NextRollback == ScriptStage \/ ScriptCommit \/ ScriptRollback

SpecRollback == InitConfigured /\ [][NextRollback]_vars

\* save_config called by a program, always with the same backup_on_save
SaveConfig ==
    /\ \E d \in SavedConfigs :
          /\ conf' = save_config(conf, d, backup_on_save).files
          /\ conf_last' = ConfOperation("save_config", <<>>, d,
                                        save_config(conf, d, backup_on_save), conf)
    /\ UNCHANGED <<backup_on_save, script, notConf>>

NextSave == SaveConfig

SpecSave == InitConfigured /\ [][NextSave]_vars

TypeInv == pc \in {"input", "onecmd", "postcmd", "stopped", "crashed"}

(***************************************************************************)
(* Properties of the shell stack.                                          *)
(***************************************************************************)
\* the running command was "exit", and not its help
ExitRan == before.known /\ CmdOf(line) = T_exit /\ ~QuestionInArg(line)
TopRan == before.known /\ CmdOf(line) = T_top /\ ~QuestionInArg(line)

\* C1: entering a subshell and then leaving it with "exit" leaves
\* shell_defaults exactly as they were before the entry: no key of the popped
\* level or of the traversed nodes remains and no key of the parent is
\* removed.  Stated for the exits that land in a subshell, where the shell
\* landed in is one the session has stood in before.
C1_ExitRestoresDefaults ==
    (ExitRan /\ raised = "" /\ Len(shells) >= 2 /\ left_defaults[Len(shells)].known)
        => shell_defaults = left_defaults[Len(shells)].d

\* C4: the stack is never empty while the session continues, and "exit" at
\* depth 1 pops the last entry and signals termination.
C4_StackNeverEmpty ==
    /\ (pc \in {"input", "onecmd"} \/ (pc = "postcmd" /\ ~stop)) => Len(shells) >= 1
    /\ (ExitRan /\ Len(before.shells) = 1) => (shells = <<>> /\ stop /\ pc = "postcmd")
    /\ pc = "stopped" => stop

C4_Witness == ExitRan /\ Len(before.shells) = 1 /\ shells = <<>> /\ stop

RECURSIVE InheritedPrompt(_)
InheritedPrompt(stack) ==
    IF Config(Last(stack)).prompt # NoPrompt THEN Config(Last(stack)).prompt
    ELSE InheritedPrompt(Front(stack))

\* C6: after an "exit" that leaves the stack non-empty the active shell is the
\* new top and the prompt is its configured prompt, or the prompt it inherited
\* on entry when it configures none; the exit completes without error in both
\* cases.
C6_ExitRestoresPrompt ==
    (ExitRan /\ Len(before.shells) >= 2)
        => /\ raised = ""
           /\ shell = Last(shells)
           /\ prompt = InheritedPrompt(shells)

\* the models of the frames that are marked as subshells, in their order
RECURSIVE Traversed(_)
Traversed(frames) ==
    IF frames = <<>> THEN <<>>
    ELSE (IF Config(Head(frames).model).subshell THEN <<Head(frames).model>> ELSE <<>>)
         \o Traversed(Tail(frames))

\* the line that ran names a subshell last and binds no value
NavigationRan ==
    /\ before.known
    /\ CmdOf(line) \notin BuiltinCommands
    /\ ~EndsWithQuestion(line)
    /\ LET parsed == ParseCommand(before.shell, line, FALSE)
       IN  /\ parsed.exc = ""
           /\ Len(parsed.ret) = 1
           /\ Config(CurrentModel(parsed).model).subshell
           /\ \A i \in 1..Len(parsed.ret[1]) :
                 \A j \in 1..Len(parsed.ret[1][i].fields) :
                     parsed.ret[1][i].fields[j].values = Unset

\* C7: a line whose last node is marked as a subshell and that binds no value
\* is navigation: no handler is called and nothing is written; the traversed
\* subshell nodes and then the leaf are pushed in root-to-leaf order, the leaf
\* becomes the active shell and the prompt becomes the leaf's prompt.
C7_Navigation ==
    NavigationRan =>
        LET frames == ParseCommand(before.shell, line, FALSE).ret[1]
            leaf == Last(frames).model
        IN  /\ calls = <<>>
            /\ out = <<>>
            /\ raised = ""
            /\ shells = before.shells
                           \o Traversed(SubSeq(frames, 2, Len(frames) - 1))
                           \o <<leaf>>
            /\ shell = leaf
            /\ prompt = (IF Config(leaf).prompt # NoPrompt THEN Config(leaf).prompt
                         ELSE before.prompt)

C7_Witness ==
    /\ NavigationRan
    /\ line = <<T_n, T_b, T_c>>
    /\ before.shells = <<"Root", "A">>
    /\ shells = <<"Root", "A", "B", "C">>
    /\ prompt = "c#"

\* a leaf with no prompt of its own: the prompt stays
C7_WitnessInherited ==
    NavigationRan /\ line = <<T_n, T_b>> /\ shell = "B" /\ prompt = "a#"

(***************************************************************************)
(* Properties of the dispatcher.                                           *)
(***************************************************************************)
\* the running line went to App.default, and not to its help
DefaultRan == before.known /\ CmdOf(line) \notin BuiltinCommands /\ ~EndsWithQuestion(line)

\* the state the running command started in
FoundState ==
    StartState(before.shells, before.shell, before.prompt, before.shell_defaults,
               before.left_defaults)

\* C2: the keyword arguments of the first segment's handler are the shell
\* defaults, overlaid by the command defaults, overlaid by the explicit
\* arguments: {a: 1}, {a: 2, b: 3} and {a: 4} give {a: 4, b: 3}.
C2_KwargsLayered ==
    DefaultRan =>
        \A i \in 1..Len(calls) :
            calls[i].index = 0 =>
                LET command == ParseCommand(before.shell, line, FALSE).ret[1]
                    shell_level == before.shell_defaults
                    command_defaults == CommandDefaults(command)
                    command_arguments == CommandArguments(command)
                    kw == calls[i].kw
                IN  /\ DOMAIN kw = DOMAIN shell_level \cup DOMAIN command_defaults
                                       \cup DOMAIN command_arguments
                    /\ \A k \in DOMAIN kw :
                          kw[k] = IF k \in DOMAIN command_arguments THEN command_arguments[k]
                                  ELSE IF k \in DOMAIN command_defaults THEN command_defaults[k]
                                  ELSE shell_level[k]

C2_Witness ==
    /\ DefaultRan
    /\ before.shell = "A"
    /\ before.shell_defaults = (T_x :> PyInt(1))
    /\ line = <<T_x, T_4>>
    /\ Len(calls) = 1
    /\ calls[1].method = "run"
    /\ calls[1].kw = (T_x :> PyInt(4) @@ T_z :> PyInt(3))

\* what a handler was called with
Handlers(cs) ==
    [i \in 1..Len(cs) |->
        [model |-> cs[i].model, method |-> cs[i].method, args |-> cs[i].args,
         kw |-> cs[i].kw]]

\* C3: running a line T inside the subshell at path P, entered from the top
\* in one line or level by level, calls the same handlers with the same
\* keyword arguments as running "P T" at the top.
C3_SubshellEquivalence ==
    (pc = "input" /\ nav.fresh /\ Len(shells) > 1) =>
        \A T \in CommandLines(shell) :
            Handlers(Default(Current, T).calls)
                = Handlers(Default(Started, nav.path \o T).calls)

\* the field the token at place i of the running line names, where the
\* token names one: a record of its frame's model and its FieldInfo
NamedAt(i) ==
    LET ps == ParseCommand(before.shell, SubSeq(line, 1, i), TRUE)
    IN  IF ps.exc = "" /\ ps.cf # NoField /\ FieldAt(ps, ps.cf).values = Unset
           /\ FieldIndex(CurrentModel(ps).model, line[i]) # 0
        THEN [named |-> TRUE, model |-> CurrentModel(ps).model,
              field |-> FieldAt(ps, ps.cf).field]
        ELSE [named |-> FALSE, model |-> "", field |-> ModelField(<<>>, "")]

\* the token at place i names a presence field and no value follows it: the
\* line ends there, or the next token is a name or an alias of a field or of
\* a namespace of the same model
PresenceOnlyAt(i) ==
    /\ NamedAt(i).named
    /\ NamedAt(i).field.presence.has
    /\ (i = Len(line) \/ FieldIndex(NamedAt(i).model, line[i + 1]) # 0)

\* the same field is not named again further on
LastMention(i) ==
    \A j \in (i + 1)..Len(line) :
        NamedAt(j).named => NamedAt(j).field.name # NamedAt(i).field.name

\* C10: a presence field named with no value after it (the line ends, or a
\* field name, an alias or a namespace token follows) binds exactly its
\* presence value in the command that is executed.
C10_PresenceBound ==
    (DefaultRan /\ calls # <<>>) =>
        \A i \in 1..Len(line) :
            (PresenceOnlyAt(i) /\ LastMention(i)) =>
                /\ NamedAt(i).field.name \in DOMAIN calls[1].kw
                /\ calls[1].kw[NamedAt(i).field.name] = NamedAt(i).field.presence.v

\* at the end of the line
C10_WitnessEnd ==
    /\ DefaultRan
    /\ line = <<T_r, T_v, T_f>>
    /\ PresenceOnlyAt(3)
    /\ Len(calls) = 1 /\ calls[1].exc = ""
    /\ calls[1].kw[T_f] = PyBool(TRUE)

\* before an alias of another field
C10_WitnessAlias ==
    /\ DefaultRan
    /\ line = <<T_f, T_R, T_v>>
    /\ PresenceOnlyAt(1)
    /\ Len(calls) = 1 /\ calls[1].exc = ""
    /\ calls[1].kw[T_f] = PyBool(TRUE)

\* before a namespace token
C10_WitnessNamespace ==
    /\ DefaultRan
    /\ line = <<T_f, T_a>>
    /\ PresenceOnlyAt(1)
    /\ Len(calls) = 1 /\ calls[1].model = "A" /\ calls[1].exc = ""
    /\ calls[1].kw[T_f] = PyBool(TRUE)

(***************************************************************************)
(* Properties of piped lines.                                              *)
(***************************************************************************)
\* what the handler of a call returned
Returned(c) == Invoke(c.model, c.method, c.args, c.kw).ret

\* C8: the segments of a piped line run left to right; the handler of a
\* segment after the first gets the result of the segment before it as its
\* leading positional argument, and what is rendered in the end is the result
\* of the last segment.
C8_PipeChain ==
    DefaultRan =>
        LET segments == ParseCommand(before.shell, line, FALSE).ret
        IN  /\ \A i \in 1..Len(calls) : calls[i].index = i - 1
            /\ \A i \in 2..Len(calls) : calls[i].args = <<Returned(calls[i - 1])>>
            /\ (calls # <<>> /\ Len(calls) = Len(segments) /\ Last(calls).exc = "")
                   => out = IF Truthy(Returned(Last(calls)))
                            THEN <<Written(Returned(Last(calls)))>>
                            ELSE <<>>

C8_Witness ==
    /\ DefaultRan
    /\ line = <<T_sh, T_j, T_pipe, T_include, T_W, T_pipe, T_exclude, T_E>>
    /\ Len(calls) = 3
    /\ calls[2].args = <<Joke>>
    /\ calls[3].args = <<PyText(<< <<"W", "E">>, <<"W">> >>)>>
    /\ out = <<Written(PyText(<< <<"W">> >>))>>

\* the places of the running line where a "|" stands after tokens that
\* resolve to a node with no pipe configured
DeadPipes ==
    {i \in 1..Len(line) :
        /\ line[i] = T_pipe
        /\ ParseCommand(before.shell, SubSeq(line, 1, i - 1), FALSE).exc = ""
        /\ LET node == CurrentModel(ParseCommand(before.shell, SubSeq(line, 1, i - 1), FALSE)).model
           IN  ~Config(node).hasConfig \/ Config(node).pipe = NoPipe}

\* C9: a "|" met on a node with no pipe configured ends the resolution: it
\* opens no segment, it and the tokens after it are dropped, and the segments
\* before it are still executed and their output written.
C9_PipeUnsupported ==
    DefaultRan =>
        \A i \in DeadPipes :
            LET head == SubSeq(line, 1, i - 1)
                alone == Default(FoundState, head)
            IN  /\ ParseCommand(before.shell, line, FALSE).ret
                       = ParseCommand(before.shell, head, FALSE).ret
                /\ calls = alone.calls
                /\ out = alone.out
                /\ SameSession(alone, [shells |-> shells, shell |-> shell, prompt |-> prompt,
                                       shell_defaults |-> shell_defaults])
                /\ stop = alone.stop
                /\ raised = alone.raised

C9_Witness ==
    /\ DefaultRan
    /\ before.shell = "A"
    /\ line = <<T_x, T_4, T_pipe, T_include, T_W>>
    /\ DeadPipes = {3}
    /\ Len(calls) = 1 /\ calls[1].model = "A" /\ calls[1].kw[T_x] = PyInt(4)
    /\ Len(out) = 1

(***************************************************************************)
(* Properties of the resolver, on the lines of SpecValues.                 *)
(***************************************************************************)
\* a token with no quote character and no bracket, and not a pipe
Plain(token) ==
    /\ token # T_pipe
    /\ \A ch \in {"\"", "'", "{", "}", "[", "]"} : ~HasChar(token, ch)

\* the tokens of the running line up to place i are plain
PlainUpTo(i) == \A j \in 1..i : Plain(line[j])

\* the resolver after the tokens before place i of the running line, and
\* after the token at place i
ResolvedBefore(i) == ParseCommand(before.shell, SubSeq(line, 1, i - 1), TRUE)
ResolvedUpTo(i) == ParseCommand(before.shell, SubSeq(line, 1, i), TRUE)

\* the field that is open when the token at place i is met
IsOpenAt(i) == ResolvedBefore(i).exc = "" /\ ResolvedBefore(i).cf # NoField
OpenAt(i) == FieldAt(ResolvedBefore(i), ResolvedBefore(i).cf)
NodeAt(i) == CurrentModel(ResolvedBefore(i)).model

\* an Enum field is open at place i
EnumOpenAt(i) == IsOpenAt(i) /\ OpenAt(i).field.ann = "Enum"

IsVariant(i) == \E k \in 1..Len(OpenAt(i).field.enum) : OpenAt(i).field.enum[k] = line[i]
IsVariantPrefix(i) ==
    \E k \in 1..Len(OpenAt(i).field.enum) : StartsWith(OpenAt(i).field.enum[k], line[i])

\* the value a field bound last
LastValue(field) == IF field.values.t = "list" THEN Last(field.values.l) ELSE field.values

\* C11: while an Enum field is open, a token that names no child and matches
\* no variant, exactly or as a prefix, goes on to the next rules: it raises
\* FieldLooseMatchOnly when it is a prefix of a child name or alias, and is
\* bound as a value of the open field otherwise; it is never dropped.
C11_EnumFallsThrough ==
    DefaultRan =>
        \A i \in 1..Len(line) :
            (/\ PlainUpTo(i)
             /\ EnumOpenAt(i)
             /\ FieldIndex(NodeAt(i), line[i]) = 0
             /\ ~IsVariantPrefix(i))
                => IF LooseMatch(NodeAt(i), line[i])
                   THEN ResolvedUpTo(i).exc = "FieldLooseMatchOnly"
                   ELSE /\ ResolvedUpTo(i).exc = ""
                        /\ ResolvedUpTo(i).cf = ResolvedBefore(i).cf
                        /\ FieldAt(ResolvedUpTo(i), ResolvedUpTo(i).cf)
                               = SaveCollectedValue(OpenAt(i), PyStr(line[i]), FALSE)

C12_WitnessExact ==
    /\ DefaultRan
    /\ line = <<T_t, T_e, T_np>>
    /\ Len(calls) = 1 /\ calls[1].model = "T" /\ calls[1].method = "run"
    /\ calls[1].kw[T_e] = PyStr(T_np)

\* no token of the running line before place i has a quote character or a
\* bracket: the token at place i is in no quoted or bracketed value
NoRegionBefore(i) ==
    \A j \in 1..(i - 1) : \A ch \in {"\"", "'", "{", "}", "[", "]"} : ~HasChar(line[j], ch)

\* the fields of the current node that declare the token at place i as
\* their alias or serialization alias
AliasedAt(i) ==
    {k \in 1..Len(ModelFields(NodeAt(i))) :
        \/ ModelFields(NodeAt(i))[k].alias = line[i]
        \/ ModelFields(NodeAt(i))[k].salias = line[i]}

\* the token at place i names a field of the current node by an alias
NamesByAlias(i) ==
    /\ NoRegionBefore(i)
    /\ ResolvedBefore(i).exc = ""
    /\ line[i] \notin FieldNames(NodeAt(i))
    /\ AliasedAt(i) # {}

\* the running line with the canonical name at place i
Canonical(i) ==
    [line EXCEPT ![i] = ModelFields(NodeAt(i))[CHOOSE k \in AliasedAt(i) : TRUE].name]

\* C13: a line that names a field by its alias or serialization alias
\* resolves to the same frames, the same field bound to the same values at
\* the same place, as the line that names it by its canonical name.
C13_AliasEquivalence ==
    DefaultRan =>
        \A i \in 1..Len(line) :
            NamesByAlias(i) =>
                ParseCommand(before.shell, line, FALSE)
                    = ParseCommand(before.shell, Canonical(i), FALSE)

C13_Witness ==
    /\ DefaultRan
    /\ line = <<T_t, T_D, T_zz>>
    /\ NamesByAlias(2)
    /\ Canonical(2) = <<T_t, T_d, T_zz>>
    /\ Len(calls) = 1 /\ calls[1].kw[T_d] = PyStr(T_zz)

\* the tokens with every double quote turned into a single quote
SingleQuoted(tokens) ==
    [j \in 1..Len(tokens) |->
        [k \in 1..Len(tokens[j]) |-> IF tokens[j][k] = "\"" THEN "'" ELSE tokens[j][k]]]

\* a quoted value starts at place i of the running line: a field is open and
\* the token is the first one that has the quote character ch
QuoteStartsAt(i, ch) ==
    /\ NoRegionBefore(i)
    /\ IsOpenAt(i)
    /\ HasChar(line[i], ch)
    /\ \A other \in {"\"", "'"} \ {ch} : ~HasChar(line[i], other)

\* the place where the quoted value that starts at place i ends: the place
\* itself when the token has two quote characters, else the next token that
\* has the quote character, or the end of the line
QuoteEnd(i, ch) ==
    IF CountChar(line[i], ch) = 2 THEN i
    ELSE IF \E k \in (i + 1)..Len(line) : HasChar(line[k], ch)
    THEN CHOOSE k \in (i + 1)..Len(line) :
             HasChar(line[k], ch) /\ \A m \in (i + 1)..(k - 1) : ~HasChar(line[m], ch)
    ELSE Len(line)

\* how many values a field has bound
ValueCount(field) ==
    IF field.values = Unset THEN 0
    ELSE IF field.values.t = "list" THEN Len(field.values.l) ELSE 1

\* C14: a double-quoted and a single-quoted value bind the same value, the
\* tokens from the opening one to the closing one joined by spaces with the
\* quote characters removed; a first token with two quote characters closes
\* at once, and any other first token goes on collecting tokens until one that
\* has the quote character is consumed.
C14_QuoteSymmetry ==
    DefaultRan =>
        /\ (\A j \in 1..Len(line) : ~HasChar(line[j], "'") /\ ~StartsWith(line[j], <<"{">>)) =>
               /\ ParseCommand(before.shell, SingleQuoted(line), FALSE).ret
                      = ParseCommand(before.shell, line, FALSE).ret
               /\ ParseCommand(before.shell, SingleQuoted(line), FALSE).exc
                      = ParseCommand(before.shell, line, FALSE).exc
        /\ \A i \in 1..Len(line) : \A ch \in {"\"", "'"} :
               QuoteStartsAt(i, ch) =>
                   /\ ResolvedUpTo(QuoteEnd(i, ch)).exc = ""
                   /\ ResolvedUpTo(QuoteEnd(i, ch)).cf = ResolvedBefore(i).cf
                   /\ LastValue(FieldAt(ResolvedUpTo(QuoteEnd(i, ch)), ResolvedBefore(i).cf))
                          = MutateValue(PyStr(JoinSpace(
                                StripAll(SubSeq(line, i, QuoteEnd(i, ch)), ch))))
                   /\ ValueCount(FieldAt(ResolvedUpTo(QuoteEnd(i, ch)), ResolvedBefore(i).cf))
                          = ValueCount(OpenAt(i)) + 1

\* a value of three tokens, in double and in single quotes
C14_Witness ==
    /\ DefaultRan
    /\ line = <<T_t, T_d, T_dq_a, T_4, T_b_dq>>
    /\ QuoteStartsAt(3, "\"") /\ QuoteEnd(3, "\"") = 5
    /\ SingleQuoted(line) = <<T_t, T_d, T_sq_a, T_4, T_b_sq>>
    /\ Len(calls) = 1 /\ calls[1].kw[T_d] = PyStr(<<"a", " ", "4", " ", "b">>)

\* a first token with two quote characters closes at once
C14_WitnessClosed ==
    /\ DefaultRan
    /\ line = <<T_t, T_d, T_sq_c_sq, T_zz>>
    /\ QuoteStartsAt(3, "'") /\ QuoteEnd(3, "'") = 3
    /\ Len(calls) = 1 /\ calls[1].kw[T_d] = PyList(<<PyStr(<<"c">>), PyStr(T_zz)>>)

\* the token at place i opens a value that goes on past it: a quoted token
\* that does not have two quote characters, or a token that starts with "{"
OpensQuoted(i, ch) == QuoteStartsAt(i, ch) /\ CountChar(line[i], ch) # 2
OpensBracketed(i) ==
    NoRegionBefore(i) /\ IsOpenAt(i) /\ StartsWith(line[i], <<"{">>)

\* the "|" at place i is inside the value that the token at place j opened
InsideQuoted(j, i, ch) ==
    j < i /\ OpensQuoted(j, ch) /\ \A k \in (j + 1)..(i - 1) : ~HasChar(line[k], ch)
InsideBracketed(j, i) ==
    j < i /\ OpensBracketed(j) /\ \A k \in (j + 1)..(i - 1) : ~EndsWith(line[k], <<"}">>)

\* the node at place i declares a pipe
PipeDeclaredAt(i) == Config(NodeAt(i)).hasConfig /\ Config(NodeAt(i)).pipe # NoPipe

\* C15: a "|" met by the main loop at a node that declares a pipe starts a
\* new segment, whose frame has no fields, and leaves the segments before it
\* as they were; a "|" inside a quoted or bracketed value that is being
\* collected for an open field is text of that value and starts no segment.
C15_PipeSeparates ==
    DefaultRan =>
        \A i \in 1..Len(line) :
            line[i] = T_pipe =>
                /\ (/\ NoRegionBefore(i)
                    /\ ResolvedBefore(i).exc = ""
                    /\ ~ResolvedBefore(i).pipeError
                    /\ PipeDeclaredAt(i)) =>
                       /\ ResolvedUpTo(i).exc = ""
                       /\ Len(ResolvedUpTo(i).ret) = Len(ResolvedBefore(i).ret) + 1
                       /\ SubSeq(ResolvedUpTo(i).ret, 1, Len(ResolvedBefore(i).ret))
                              = ResolvedBefore(i).ret
                       /\ Len(Last(ResolvedUpTo(i).ret)) = 1
                       /\ Last(ResolvedUpTo(i).ret)[1].parameter = T_pipe
                       /\ Last(ResolvedUpTo(i).ret)[1].fields = <<>>
                /\ \A j \in 1..(i - 1) :
                       /\ \A ch \in {"\"", "'"} :
                              InsideQuoted(j, i, ch) =>
                                  /\ Len(ResolvedUpTo(i).ret) = Len(ResolvedBefore(j).ret)
                                  /\ LastValue(FieldAt(ResolvedUpTo(i), ResolvedBefore(j).cf))
                                         = PyStr(JoinSpace(StripAll(SubSeq(line, j, i), ch)))
                       /\ InsideBracketed(j, i) =>
                              /\ Len(ResolvedUpTo(i).ret) = Len(ResolvedBefore(j).ret)
                              /\ LastValue(FieldAt(ResolvedUpTo(i), ResolvedBefore(j).cf))
                                     = PyStr(JoinSpace(SubSeq(line, j, i)))

\* a "|" between two quotes: one segment, the "|" in the value
C15_WitnessQuoted ==
    /\ DefaultRan
    /\ line = <<T_t, T_d, T_dq_a, T_pipe, T_b_dq>>
    /\ InsideQuoted(3, 4, "\"")
    /\ Len(ParseCommand(before.shell, line, FALSE).ret) = 1
    /\ Len(calls) = 1 /\ calls[1].kw[T_d] = PyStr(<<"a", " ", "|", " ", "b">>)

\* a "|" after a plain value: a second segment at the pipe model
C15_WitnessSegment ==
    /\ DefaultRan
    /\ line = <<T_t, T_d, T_zz, T_pipe>>
    /\ Len(ParseCommand(before.shell, line, FALSE).ret) = 2
    /\ ParseCommand(before.shell, line, FALSE).ret[2][1].model = "PipeFunctionsModel"
    /\ Len(calls) >= 1 /\ calls[1].kw[T_d] = PyStr(T_zz)

(***************************************************************************)
(* Properties of the execution of a line, on the lines of SpecHandlers.    *)
(***************************************************************************)
\* the frames the running line resolved to, and the leaf of its one segment
Resolved == ParseCommand(before.shell, line, FALSE)
Leaf == Last(Resolved.ret[1])

\* the line resolved to one segment and its handler was called
HandlerCalled ==
    /\ DefaultRan
    /\ Resolved.exc = ""
    /\ Len(Resolved.ret) = 1
    /\ Len(calls) = 1

\* the last bound field of the leaf names a function
LeafFunction ==
    IF Leaf.fields = <<>> THEN NoFunction
    ELSE ModelFields(Leaf.model)[
             CHOOSE k \in 1..Len(ModelFields(Leaf.model)) :
                 ModelFields(Leaf.model)[k].name = Last(Leaf.fields).name].function

\* C16: when the last bound field of the leaf names a function, that function
\* is the one called, also when the leaf node has a run of its own; run is
\* called only when the last bound field names no function.
C16_FieldFunctionFirst ==
    HandlerCalled =>
        /\ LeafFunction # NoFunction => calls[1].method = LeafFunction
        /\ calls[1].method = "run" => LeafFunction = NoFunction

\* the frames above the leaf whose node has a run of its own
AncestorsWithRun ==
    {k \in 1..(Len(Resolved.ret[1]) - 1) : "run" \in Config(Resolved.ret[1][k].model).methods}

\* the leaf names no function and its node has no run of its own
NoOwnHandler ==
    /\ DefaultRan
    /\ Resolved.exc = ""
    /\ Len(Resolved.ret) = 1
    /\ ~Config(Leaf.model).subshell
    /\ LeafFunction = NoFunction
    /\ "run" \notin Config(Leaf.model).methods
    /\ ValidateValues(before.shells, before.shell, Resolved.ret[1])

\* C17: when the leaf names no function and its node has no run of its own,
\* the run of the nearest frame above it that has one is called with the bound
\* arguments; the line is reported as having nothing to execute only when no
\* frame above the leaf has a run.
C17_ParentHandler ==
    NoOwnHandler =>
        IF AncestorsWithRun # {}
        THEN /\ Len(calls) = 1
             /\ calls[1].method = "run"
             /\ calls[1].model
                    = Resolved.ret[1][CHOOSE k \in AncestorsWithRun :
                                          \A m \in AncestorsWithRun : m <= k].model
             /\ \A name \in DOMAIN CommandArguments(Resolved.ret[1]) :
                    /\ name \in DOMAIN calls[1].kw
                    /\ calls[1].kw[name] = CommandArguments(Resolved.ret[1])[name]
        ELSE /\ calls = <<>>
             /\ out # <<>>

\* the values the first segment of the running line collected fail the
\* validation, and the segment is one that is executed: it is no entry into a
\* subshell, and its leaf has a run or a bound field
FailsValidation ==
    /\ DefaultRan
    /\ Resolved.exc = ""
    /\ ~ValidateValues(before.shells, before.shell, Resolved.ret[1])
    /\ ~(Config(Leaf.model).subshell /\ DOMAIN CommandArguments(Resolved.ret[1]) = {})
    /\ "run" \in Config(Leaf.model).methods \/ Leaf.fields # <<>>

\* C18: when the values collected for a segment fail the validation, no
\* handler is called, the ValidationError is printed, nothing escapes, the
\* loop goes on, and shells, shell, prompt and shell_defaults are as the line
\* found them.
C18_ValidationFailure ==
    FailsValidation =>
        /\ calls = <<>>
        /\ out = <<[kind |-> "traceback", exc |-> "ValidationError"]>>
        /\ raised = ""
        /\ ~stop
        /\ pc = "postcmd"
        /\ shells = before.shells
        /\ shell = before.shell
        /\ prompt = before.prompt
        /\ shell_defaults = before.shell_defaults

\* a wrong value inside a subshell
C18_Witness ==
    /\ FailsValidation
    /\ Len(before.shells) > 1
    /\ DOMAIN before.shell_defaults # {}
    /\ "run" \in Config(Leaf.model).methods
    /\ calls = <<>>
    /\ out = <<[kind |-> "traceback", exc |-> "ValidationError"]>>

\* the declaration of the last bound field of the leaf
LeafDeclared ==
    ModelFields(Leaf.model)[
        CHOOSE k \in 1..Len(ModelFields(Leaf.model)) :
            ModelFields(Leaf.model)[k].name = Last(Leaf.fields).name]

\* the handler of the running line raised
HandlerRaised == DefaultRan /\ \E i \in 1..Len(calls) : calls[i].exc # ""

\* the handler the last bound field names returned, and a processor of the
\* field raised
ProcessorRaised ==
    /\ HandlerCalled
    /\ calls[1].exc = ""
    /\ Leaf.fields # <<>>
    /\ calls[1].method = LeafDeclared.function
    /\ \E i \in 1..Len(LeafDeclared.processors) : LeafDeclared.processors[i] = "fail"

\* the handler the last bound field names returned, and the outputter of the
\* field raised
OutputterRaised ==
    /\ HandlerCalled
    /\ calls[1].exc = ""
    /\ Leaf.fields # <<>>
    /\ calls[1].method = LeafDeclared.function
    /\ LeafDeclared.processors = <<>>
    /\ LeafDeclared.outputter.t = "callable"
    /\ LeafDeclared.outputter.raises

\* C19: no exception leaves default; when the handler, a processor or the
\* outputter raised, the traceback is printed and the loop goes on to the next
\* line.
C19_ExceptionsContained ==
    DefaultRan =>
        /\ raised = ""
        /\ pc = "postcmd"
        /\ (HandlerRaised \/ ProcessorRaised \/ OutputterRaised) =>
               /\ out # <<>>
               /\ Last(out).kind = "traceback"
               /\ ~stop

\* a handler that raises
C19_Witness ==
    /\ HandlerRaised
    /\ line = <<T_t, T_u, T_h>>
    /\ calls[1].method = "boom"
    /\ out = <<[kind |-> "traceback", exc |-> "RuntimeError"]>>
    /\ ~stop /\ raised = ""

\* a processor that raises
C19_WitnessProcessor ==
    /\ ProcessorRaised
    /\ line = <<T_t, T_u, T_p>>
    /\ Last(out).kind = "traceback"
    /\ ~stop /\ raised = ""

\* an outputter that raises
C19_WitnessOutputter ==
    /\ OutputterRaised
    /\ line = <<T_t, T_u, T_o>>
    /\ Last(out).kind = "traceback"
    /\ ~stop /\ raised = ""

\* the running line is "help <path>", and what the resolver makes of the path
HelpRan == before.known /\ CmdOf(line) = T_help
HelpPath == ParseCommand(before.shell, LStripQuestion(RStripQuestion(ArgOf(line))), TRUE)

\* C20: "help <path>" lets no exception of the resolver escape: for a path
\* that matches nothing it writes the "Incorrect command" message, for a path
\* that ends in a partial name it writes the completions, and the loop goes on.
C20_HelpRecovers ==
    HelpRan =>
        /\ raised = ""
        /\ pc = "postcmd"
        /\ ~stop
        /\ HelpPath.exc = "FieldKeyError" =>
               out = <<Written(Msg("Incorrect command", HelpPath.excParameter))>>
        /\ HelpPath.exc = "FieldLooseMatchOnly" =>
               /\ Len(out) = 1
               /\ out[1].kind = "write"

\* the last bound field of the leaf names the function that was called and
\* returned, and declares an outputter that returns
FieldOutputterResolved ==
    /\ HandlerCalled
    /\ calls[1].exc = ""
    /\ Leaf.fields # <<>>
    /\ calls[1].method = LeafDeclared.function
    /\ LeafDeclared.processors = <<>>
    /\ LeafDeclared.outputter.t = "callable"
    /\ ~LeafDeclared.outputter.raises

\* the run of the leaf node was called and returned; the nodes of the schema
\* declare no outputter in PicleConfig, and run returns no outputter
NoOutputterResolved ==
    /\ HandlerCalled
    /\ calls[1].exc = ""
    /\ calls[1].method = "run"

\* C21: when an outputter is resolved for the first segment and the result is
\* truthy, what is written to the output of the shell is the string the
\* outputter returns for the result and the outputter_kwargs; when none is
\* resolved the result itself is written.
C21_OutputterRendering ==
    /\ FieldOutputterResolved =>
           out = <<Written(Rendering(LeafDeclared.outputter,
                                     [t |-> "result", by |-> calls[1].method, kw |-> calls[1].kw],
                                     LeafDeclared.outputter_kwargs))>>
    /\ NoOutputterResolved =>
           out = <<Written(RunResult(calls[1].model, calls[1].kw))>>

(***************************************************************************)
(* Properties of model_mount and model_remove, on the runs of SpecMount.   *)
(***************************************************************************)
\* the last call mounted test_mount_model at the top-level name n, which was
\* no field of the root
MountedAtTop(n) ==
    /\ api.op = "model_mount"
    /\ api.exc = ""
    /\ api.path = <<n>>
    /\ \A i \in 1..Len(api.was["Root"]) : api.was["Root"][i].name # n

\* the last call removed the top-level name n
RemovedAtTop(n) ==
    /\ api.op = "model_remove"
    /\ api.exc = ""
    /\ api.path = <<n>>

\* no other field of the root, as it was before the call, has a name or an
\* alias that starts with n
NoOtherStartsWith(n) ==
    \A i \in 1..Len(api.was["Root"]) :
        api.was["Root"][i].name # n =>
            /\ ~StartsWith(api.was["Root"][i].name, n)
            /\ ~StartsWith(api.was["Root"][i].alias, n)
            /\ ~StartsWith(api.was["Root"][i].salias, n)

C22_WitnessRemoved ==
    /\ DefaultRan
    /\ line = <<T_m, T_param, T_v>>
    /\ RemovedAtTop(T_m)
    /\ api.popped # NoFieldInfo /\ api.popped.ann = "test_mount_model"
    /\ calls = <<>>
    /\ out = <<Written(Msg("Incorrect command", T_m))>>

\* what following path from the root of the tree tr reaches: a model, the
\* annotation of a field that is no model, or nothing
NothingThere == [isModel |-> FALSE, name |-> "<absent>"]

RECURSIVE WalkTo(_, _)
WalkTo(tr, path) ==
    IF path = <<>> THEN TheModel("Root")
    ELSE IF /\ WalkTo(tr, Front(path)).isModel
            /\ \E i \in 1..Len(tr[WalkTo(tr, Front(path)).name]) :
                   tr[WalkTo(tr, Front(path)).name][i].name = Last(path)
    THEN AnnotationOf(
             tr[WalkTo(tr, Front(path)).name][
                 CHOOSE i \in 1..Len(tr[WalkTo(tr, Front(path)).name]) :
                     tr[WalkTo(tr, Front(path)).name][i].name = Last(path)])
    ELSE NothingThere

\* the segment at place k of path is no child of the model the segments before
\* it lead to
AbsentAt(tr, path, k) ==
    /\ WalkTo(tr, SubSeq(path, 1, k - 1)).isModel
    /\ WalkTo(tr, SubSeq(path, 1, k)) = NothingThere

\* C23: model_mount with a path that has a segment before the last one that
\* is no existing child raises KeyError to the caller and leaves the tree as
\* it was.
C23_MountWrongPath ==
    (/\ api.op = "model_mount"
     /\ \E k \in 1..(Len(api.path) - 1) : AbsentAt(api.was, api.path, k)) =>
        /\ api.exc = "KeyError"
        /\ tree = api.was

\* a mount below a name that is no child of the root
C23_Witness ==
    /\ api.op = "model_mount"
    /\ api.path = <<T_m, T_t>>
    /\ AbsentAt(api.was, api.path, 1)
    /\ api.exc = "KeyError"
    /\ tree = api.was

\* the node a model_remove of path detaches from the tree tr
Detached(tr, path) ==
    tr[WalkTo(tr, Front(path)).name][
        CHOOSE i \in 1..Len(tr[WalkTo(tr, Front(path)).name]) :
            tr[WalkTo(tr, Front(path)).name][i].name = Last(path)]

\* the model class a field holds, as a value
NodeValue(field) == [t |-> "class", name |-> field.ann]

\* C24: model_remove(path) detaches the node at path and returns it; when a
\* segment of the path is absent it raises and leaves the tree as it was.
C24_RemoveReturnsNode ==
    api.op = "model_remove" =>
        /\ WalkTo(api.was, api.path) # NothingThere =>
               /\ api.exc = ""
               /\ WalkTo(tree, api.path) = NothingThere
               /\ api.ret = NodeValue(Detached(api.was, api.path))
        /\ (\E k \in 1..Len(api.path) : AbsentAt(api.was, api.path, k)) =>
               /\ api.exc = "KeyError"
               /\ tree = api.was

\* the callers of sync() that are between the creation of the lock file and
\* its removal
InCritical == {p \in Callers : sync[p].at \in {"expire", "meta", "data"}}

\* C25: sync() is multiprocess and thread safe: at most one caller at a time
\* is between acquiring the lock file and releasing it.
C25_SyncExclusive == Cardinality(InCritical) <= 1

\* the key that the last operation was about was stored when the operation
\* began, and its time to live had (had not) passed by then
StoredBefore == cache_last.key \in DOMAIN cache_last.was.items
ElapsedBefore == cache_last.now - cache_last.was.metadata[cache_last.key].age
ExpiredBefore == ElapsedBefore >= cache_last.was.metadata[cache_last.key].ttl

\* C26: indexing a stored key whose time to live has passed raises KeyError
\* and removes the key and its metadata, the other keys staying; indexing a
\* stored key whose time to live has not passed returns the stored value and
\* leaves the cache as it was.
C26_GetItemExpiry ==
    (cache_last.op = "getitem" /\ StoredBefore) =>
        IF ExpiredBefore
        THEN /\ cache_last.exc = "KeyError"
             /\ cache.items = Without(cache_last.was.items, {cache_last.key})
             /\ cache.metadata = Without(cache_last.was.metadata, {cache_last.key})
        ELSE /\ cache_last.exc = ""
             /\ cache_last.ret = cache_last.was.items[cache_last.key]
             /\ cache = cache_last.was
C26_Witness == cache_last.op = "getitem" /\ StoredBefore /\ ExpiredBefore
C26_WitnessAlive == cache_last.op = "getitem" /\ StoredBefore /\ ~ExpiredBefore

\* the keys whose time to live had passed when the last operation began
ExpiredKeysBefore ==
    {k \in DOMAIN cache_last.was.metadata :
        cache_last.now - cache_last.was.metadata[k].age >= cache_last.was.metadata[k].ttl}

\* a caller of sync() has made its writes, and nothing else touched the cache
\* since its expiry loop
SyncDone(p) ==
    /\ sync[p].at = "finally" /\ sync[p].exc = ""
    /\ cache_last.op = "expire"
    /\ \A q \in Callers \ {p} : sync[q].at = "idle"

\* the expiry loop of sync() drops the expired keys and only them
ExpireDropsExpired ==
    cache_last.op = "expire" =>
        /\ cache.items = Without(cache_last.was.items, ExpiredKeysBefore)
        /\ cache.metadata = Without(cache_last.was.metadata, ExpiredKeysBefore)

\* the files hold what is in memory once sync() has written them
FilesHoldMemory ==
    \A p \in Callers : SyncDone(p) => disk.data = cache.items /\ disk.meta = cache.metadata

\* C27: sync() writes the in-memory content to the files after dropping the
\* expired keys only: exactly the expired keys are removed, and every
\* unexpired key is still in memory and is in the data and meta files.
C27_SyncDropsExpiredOnly == ExpireDropsExpired /\ FilesHoldMemory

\* the operations that stage changes
StagingOperations == {"run", "erase_config", "rollback_config", "clear_changes_config"}

\* the configuration that a reader of the file gets
Running(file) == IF file = Absent THEN EmptyDict ELSE Loaded(file)

\* C28: staged changes never touch the running configuration: run,
\* erase_config, rollback_config and clear_changes_config leave the
\* configuration of the main config file as they found it, and so as the last
\* commit_config (or the start) left it; they leave the backups too, and
\* clear_changes_config leaves no temp file.
C28_StagingLeavesMain ==
    conf_last.op \in StagingOperations =>
        /\ Running(conf.main) = Running(conf_last.was.main)
        /\ conf_last.was.main # Absent => conf.main = conf_last.was.main
        /\ conf.old = conf_last.was.old
        /\ conf_last.op = "clear_changes_config" => conf.temp = Absent
C28_Witness ==
    /\ conf_last.op = "run"
    /\ conf_last.was.main \notin {Absent, Blank}
    /\ Running(conf.temp) # Running(conf.main)
C28_WitnessCleared ==
    /\ conf_last.op = "clear_changes_config"
    /\ conf_last.was.temp # Absent
    /\ Running(conf_last.was.temp) # Running(conf.main)

\* what the last operation found staged, and the configuration an edit starts
\* from: the temp file when there is one, the main config file otherwise
StagedBefore == conf_last.was.temp # Absent
BaseBefore ==
    IF StagedBefore THEN Loaded(conf_last.was.temp) ELSE Running(conf_last.was.main)
KeysAt(d, sec) == IF sec \in DOMAIN d THEN DOMAIN d[sec] ELSE {}

\* an edit is applied to what was staged: the kwargs are set in the section
\* the command path names, and every other section and key stays
EditApplied(staged, base, path, kwargs) ==
    IF path = <<>> THEN staged = base
    ELSE /\ DOMAIN staged = DOMAIN base \cup {path[1]}
         /\ \A sec \in DOMAIN base \ {path[1]} : staged[sec] = base[sec]
         /\ DOMAIN staged[path[1]] = KeysAt(base, path[1]) \cup DOMAIN kwargs
         /\ \A k \in DOMAIN kwargs : staged[path[1]][k] = kwargs[k]
         /\ \A k \in KeysAt(base, path[1]) \ DOMAIN kwargs :
                staged[path[1]][k] = base[path[1]][k]

\* every edit is staged on top of the edits before it
EditsAccumulate ==
    conf_last.op = "run" =>
        EditApplied(Loaded(conf.temp), BaseBefore, conf_last.path, conf_last.kwargs)

\* a commit with a temp file makes the main config file hold what was staged
\* and removes the temp file
CommitApplies ==
    (conf_last.op = "commit_config" /\ StagedBefore) =>
        /\ conf.main = Yaml(Loaded(conf_last.was.temp))
        /\ conf.temp = Absent
        /\ conf_last.ret = "Configuration committed successfully"

\* a commit without temp file changes no file
CommitWithoutChanges ==
    (conf_last.op = "commit_config" /\ ~StagedBefore) =>
        /\ conf = conf_last.was
        /\ conf_last.ret = "No uncommitted changes to commit"

\* C29, as the claim states it: a commit with a temp file makes the main
\* config file hold what was staged (every edit since the last commit, in
\* order), removes the temp file, and keeps the main config file that was
\* there as .old1; a commit without temp file changes no file and says so.
C29_CommitKeepsBackup ==
    /\ EditsAccumulate /\ CommitApplies /\ CommitWithoutChanges
    /\ (conf_last.op = "commit_config" /\ StagedBefore /\ conf_last.was.main # Absent) =>
           conf.old[1] = conf_last.was.main

\* C29, amended: the same, the main config file that was there being kept as
\* .old1 when backup_on_save is 1 or more; with backup_on_save = 0 the commit
\* leaves the backups as they were.
C29_CommitKeepsBackupWhenEnabled ==
    /\ EditsAccumulate /\ CommitApplies /\ CommitWithoutChanges
    /\ (conf_last.op = "commit_config" /\ StagedBefore /\ conf_last.was.main # Absent) =>
           IF backup_on_save >= 1
           THEN conf.old[1] = conf_last.was.main
           ELSE conf.old = conf_last.was.old
C29_Witness ==
    /\ conf_last.op = "commit_config" /\ StagedBefore
    /\ conf_last.was.main \notin {Absent, Blank}
    /\ backup_on_save >= 1
    /\ conf.main # conf_last.was.main
    /\ DOMAIN Loaded(conf.main) # {}
    /\ \E sec \in DOMAIN Loaded(conf.main) : Cardinality(DOMAIN Loaded(conf.main)[sec]) >= 2
C29_WitnessNothingStaged ==
    /\ conf_last.op = "commit_config" /\ ~StagedBefore
    /\ conf.main \notin {Absent, Blank}

\* the backup files that exist
Backups(f) == {i \in BackupNumbers : f.old[i] # Absent}

\* the last operation was a save over a main config file that existed
SavedOver == conf_last.op = "save_config" /\ conf_last.was.main # Absent

\* C30: backup rotation. After any sequence of save_config calls with the
\* same backup_on_save = N >= 1, .old1 holds what the main config file held
\* just before the latest save, .old(i+1) holds what .old(i) held before that
\* save, no backup has a number above N, and what .oldN held is dropped; with
\* backup_on_save = 0 no backup file is ever created.
C30_BackupRotation ==
    /\ Backups(conf) \subseteq 1..backup_on_save
    /\ (SavedOver /\ backup_on_save >= 1) =>
           /\ conf.old[1] = conf_last.was.main
           /\ \A i \in 1..(backup_on_save - 1) : conf.old[i + 1] = conf_last.was.old[i]
    /\ conf_last.op = "save_config" => conf.main = Yaml(conf_last.kwargs)
C30_Witness ==
    /\ SavedOver /\ backup_on_save = MaxBackups
    /\ Backups(conf_last.was) = 1..MaxBackups
    /\ conf.old[MaxBackups] # conf_last.was.old[MaxBackups]
    /\ conf.old[1] # conf.old[2]
C30_WitnessDisabled ==
    /\ SavedOver /\ backup_on_save = 0
    /\ conf.main # conf_last.was.main

\* a rollback stages what the backup holds and changes no other file, or
\* finds no backup and changes no file
RollbackStages ==
    conf_last.op = "rollback_config" =>
        IF conf_last.was.old[conf_last.rollback] # Absent
        THEN /\ conf = [conf_last.was EXCEPT
                           !.temp = Yaml(Loaded(conf_last.was.old[conf_last.rollback]))]
             /\ conf_last.ret = "Loaded backup into temp config."
        ELSE /\ conf = conf_last.was
             /\ conf_last.ret = "Backup file not found"

\* the program has made its last commit, having rolled back to .old1
RolledBackToFirst == script.at = 6 /\ script.rollback = 1

\* C31, as the claim states it: rollback_config(N) stages the content of
\* .oldN in the temp file and changes neither the main config file nor a
\* backup; without .oldN it reports 'Backup file not found' and changes no
\* file; and commit v1, commit v2, rollback 1, commit leaves the main config
\* file holding v1.
C31_RollbackRestores ==
    /\ RollbackStages
    /\ RolledBackToFirst => Loaded(conf.main) = script.v1

\* C31, amended: the same, the main config file holding v1 at the end when
\* backup_on_save is 1 or more.
C31_RollbackRestoresWhenEnabled ==
    /\ RollbackStages
    /\ (RolledBackToFirst /\ backup_on_save >= 1) => Loaded(conf.main) = script.v1
C31_Witness ==
    /\ RolledBackToFirst /\ backup_on_save >= 1
    /\ Loaded(conf.main) = script.v1
    /\ conf.old[1] # conf.main
    /\ Loaded(conf.old[1]) # script.v1
C31_WitnessNotFound ==
    /\ conf_last.op = "rollback_config"
    /\ conf_last.ret = "Backup file not found"
    /\ backup_on_save >= 1
C31_WitnessOlder ==
    /\ conf_last.op = "rollback_config" /\ conf_last.rollback = 2
    /\ conf.temp # Absent
    /\ conf.temp # Yaml(Loaded(conf.old[1]))

\* no frame of the parsed line holds two fields of the same name
FrameFieldsDistinct(parsed) ==
    \A s \in 1..Len(parsed.ret) : \A m \in 1..Len(parsed.ret[s]) :
        \A j, k \in 1..Len(parsed.ret[s][m].fields) :
            j # k => parsed.ret[s][m].fields[j].name # parsed.ret[s][m].fields[k].name

\* the fields of the current frame before the token at place i, and the
\* field of the current node that the token names
FieldsBefore(i) == CurrentModel(ResolvedBefore(i)).fields
DeclaredAt(i) == ModelFields(NodeAt(i))[FieldIndex(NodeAt(i), line[i])]
PlacesOf(i) == {k \in 1..Len(FieldsBefore(i)) : FieldsBefore(i)[k].name = DeclaredAt(i).name}

\* the token at place i names, by name or alias, a field that the current
\* frame holds already
RenamesAt(i) ==
    /\ NoRegionBefore(i)
    /\ ResolvedBefore(i).exc = ""
    /\ FieldIndex(NodeAt(i), line[i]) # 0
    /\ DeclaredAt(i).kind = "field"
    /\ PlacesOf(i) # {}

\* C32: within one frame bound_fields never holds two entries with the same
\* field name: a field named again in the same frame, by name or alias,
\* takes the place of the earlier entry, at its position, and no entry is
\* appended.
C32_FieldReplacedInPlace ==
    DefaultRan =>
        /\ FrameFieldsDistinct(ParseCommand(before.shell, line, FALSE))
        /\ \A i \in 1..Len(line) :
               RenamesAt(i) =>
                   LET after == ResolvedUpTo(i)
                       k == CHOOSE k \in PlacesOf(i) : TRUE
                   IN  /\ after.exc = ""
                       /\ Len(CurrentModel(after).fields) = Len(FieldsBefore(i))
                       /\ \A j \in 1..Len(FieldsBefore(i)) :
                              CurrentModel(after).fields[j].name = FieldsBefore(i)[j].name
                       /\ CurrentModel(after).fields[k]
                              = [name |-> DeclaredAt(i).name, values |-> Unset,
                                 field |-> DeclaredAt(i)]
                       /\ after.cf = [s |-> Len(after.ret), m |-> Len(Last(after.ret)), i |-> k]
C32_Witness ==
    /\ DefaultRan
    /\ line = <<T_t, T_d, T_zz, T_e, T_D>>
    /\ RenamesAt(5) /\ PlacesOf(5) = {1}
    /\ FieldsBefore(5)[1].values = PyStr(T_zz)
    /\ Len(CurrentModel(ParseCommand(before.shell, line, FALSE)).fields) = 2
C32_WitnessByName ==
    /\ DefaultRan
    /\ line = <<T_t, T_e, T_nm, T_d, T_e>>
    /\ RenamesAt(5) /\ PlacesOf(5) = {1}

(***************************************************************************)
(* Properties of the order of the rules of the resolver, on the lines of   *)
(* SpecEnum.                                                               *)
(***************************************************************************)
\* the token at place i names, by name or alias, a child of the current node
NamesChildAt(i) == FieldIndex(NodeAt(i), line[i]) # 0

\* C33: with an Enum field open, a token that names a child of the current
\* node is taken as that child, and the Enum field gets no value from it,
\* even when the token spells a value of the Enum; a token that names no
\* child and equals a value of the Enum is bound as the value of the Enum
\* field, and no FieldLooseMatchOnly is raised, even when the token is a
\* prefix of the name of a child.
C33_ChildThenVariantThenPrefix ==
    DefaultRan =>
        \A i \in 1..Len(line) :
            (PlainUpTo(i) /\ EnumOpenAt(i)) =>
                LET after == ResolvedUpTo(i)
                    was == ResolvedBefore(i)
                IN  /\ NamesChildAt(i) =>
                           /\ after.exc = ""
                           /\ IF DeclaredAt(i).kind = "field"
                              THEN /\ after.cf # NoField
                                   /\ FieldAt(after, after.cf)
                                          = [name |-> DeclaredAt(i).name, values |-> Unset,
                                             field |-> DeclaredAt(i)]
                              ELSE /\ after.cf = NoField
                                   /\ CurrentModel(after).model = DeclaredAt(i).ann
                           /\ DeclaredAt(i).name # OpenAt(i).name =>
                                  FieldAt(after, was.cf) = OpenAt(i)
                    /\ (~NamesChildAt(i) /\ IsVariant(i)) =>
                           /\ after.exc = ""
                           /\ after.cf = was.cf
                           /\ FieldAt(after, after.cf)
                                  = SaveCollectedValue(OpenAt(i), PyStr(line[i]), FALSE)

\* the value cli, a prefix of the name client, is bound and the field client
\* is named after it
C33_Witness ==
    /\ DefaultRan
    /\ line = <<T_sn, T_task, T_cli, T_client, T_zz>>
    /\ EnumOpenAt(3) /\ IsVariant(3) /\ ~NamesChildAt(3)
    /\ LooseMatch(NodeAt(3), line[3])
    /\ Len(calls) = 1 /\ calls[1].method = "run"
    /\ calls[1].kw[T_task] = PyStr(T_cli) /\ calls[1].kw[T_client] = PyStr(T_zz)

\* the token client, a value of the Enum and the name of a field, names the
\* field
C33_WitnessChild ==
    /\ DefaultRan
    /\ line = <<T_sn, T_task, T_client, T_zz>>
    /\ EnumOpenAt(3) /\ IsVariant(3) /\ NamesChildAt(3)
    /\ Len(calls) = 1 /\ calls[1].method = "run"
    /\ T_task \notin DOMAIN calls[1].kw /\ calls[1].kw[T_client] = PyStr(T_zz)

\* a field that is no Enum is open at place i
ValueOpenAt(i) == IsOpenAt(i) /\ OpenAt(i).field.ann # "Enum"

\* C34: with a field that is no Enum open, a token without quotes that names
\* no child of the current node and is a prefix of the name or of an alias
\* of one raises FieldLooseMatchOnly: it is not bound as a value of the open
\* field, the line calls no handler and the completions message is written.
C34_PrefixBeforeValue ==
    DefaultRan =>
        \A i \in 1..Len(line) :
            (/\ PlainUpTo(i)
             /\ ValueOpenAt(i)
             /\ ~NamesChildAt(i)
             /\ LooseMatch(NodeAt(i), line[i]))
                => /\ ResolvedUpTo(i).exc = "FieldLooseMatchOnly"
                   /\ ResolvedUpTo(i).excParameter = line[i]
                   /\ FieldAt(ResolvedUpTo(i), ResolvedBefore(i).cf) = OpenAt(i)
                   /\ calls = <<>>
                   /\ Len(out) = 1 /\ out[1].v.id = "Incomplete command"

\* the prefix cl of the name client, after the field client
C34_Witness ==
    /\ DefaultRan
    /\ line = <<T_sn, T_client, T_cl>>
    /\ ValueOpenAt(3) /\ OpenAt(3).values = Unset
    /\ calls = <<>>
    /\ Len(out) = 1 /\ out[1].v.id = "Incomplete command"

\* the prefix after a value that the field has bound already
C34_WitnessAfterValue ==
    /\ DefaultRan
    /\ line = <<T_sn, T_client, T_zz, T_cli>>
    /\ ValueOpenAt(4) /\ OpenAt(4).values = PyStr(T_zz)
    /\ calls = <<>>

(***************************************************************************)
(* Properties of the segments of a piped line, on the lines of SpecValues. *)
(***************************************************************************)
\* the token before place i is a "|" that began a segment
SegmentStartsAt(i) ==
    /\ i > 1 /\ line[i - 1] = T_pipe
    /\ NoRegionBefore(i)
    /\ ResolvedBefore(i).exc = ""
    /\ ~ResolvedBefore(i).pipeError
    /\ Len(ResolvedBefore(i).ret) > 1

\* the segments before the one that begins at place i, as they were at the
\* "|", are what the resolver holds after the token at place j
EarlierSegmentsKept(i, j) ==
    \A s \in 1..(Len(ResolvedBefore(i).ret) - 1) :
        ResolvedUpTo(j).ret[s] = ResolvedBefore(i).ret[s]

\* C35: the tokens after a "|" are resolved against the new segment only: no
\* field is open when the segment begins, a token after the "|" that names no
\* child of the pipe model and is no prefix of one raises FieldKeyError, and
\* no token after the "|" changes a field of an earlier segment.
C35_PipeSegmentClosed ==
    DefaultRan =>
        \A i \in 1..Len(line) :
            SegmentStartsAt(i) =>
                /\ ResolvedBefore(i).cf = NoField
                /\ (/\ line[i] # T_pipe
                    /\ FieldIndex(NodeAt(i), line[i]) = 0
                    /\ ~LooseMatch(NodeAt(i), line[i]))
                       => ResolvedUpTo(i).exc = "FieldKeyError"
                /\ \A j \in i..Len(line) : EarlierSegmentsKept(i, j)

(***************************************************************************)
(* Properties of the lines that end in an error.                           *)
(***************************************************************************)
ResolutionFailures ==
    {"Incorrect command, provide more arguments",
     "has no method defined for Callable field",
     "has no method defined for function",
     "has no 'run' method defined"}

\* the entry of out reports a resolver error, a validation failure or a
\* failure to find the handler
ReportsError(o) ==
    \/ o.kind = "traceback" /\ o.exc = "ValidationError"
    \/ /\ o.kind = "write" /\ o.v.t = "msg"
       /\ o.v.id \in {"Incomplete command", "Incorrect command"} \cup ResolutionFailures

\* the running line ended in a reported error
ErrorReported == DefaultRan /\ \E i \in 1..Len(out) : ReportsError(out[i])

\* the session is what the running line found
SessionKept ==
    /\ shells = before.shells
    /\ shell = before.shell
    /\ prompt = before.prompt
    /\ shell_defaults = before.shell_defaults

\* C36: a line that ends in a reported error - FieldKeyError,
\* FieldLooseMatchOnly, a validation failure, 'provide more arguments' or
\* 'no method defined' - leaves the shell stack, the active shell, the prompt
\* and the shell-level defaults as they were before the line.
C36_ErrorKeepsSession == ErrorReported => SessionKept

\* a segment of the running line failed validation or found no handler
SegmentRejected ==
    /\ DefaultRan
    /\ \E i \in 1..Len(out) :
          \/ out[i].kind = "traceback" /\ out[i].exc = "ValidationError"
          \/ out[i].kind = "write" /\ out[i].v.t = "msg" /\ out[i].v.id \in ResolutionFailures

\* C37: the handlers of a line are called all or none: when a segment of the
\* line fails validation or finds no handler, no handler of any segment of
\* the line has been called.
C37_AllOrNothing == SegmentRejected => calls = <<>>

(***************************************************************************)
(* Properties of the stack of shells, on the lines of SpecBarePipe.        *)
(***************************************************************************)
\* the running line binds no value and resolves to the shell it was typed in
ResolvesToActiveShell ==
    /\ DefaultRan
    /\ LET parsed == ParseCommand(before.shell, line, FALSE)
       IN  /\ parsed.exc = ""
           /\ Len(parsed.ret[1]) = 1
           /\ DOMAIN CommandArguments(parsed.ret[1]) = {}
    /\ IsSubshell(before.shell)

\* C38: the stack of shells holds each model once at most and the active
\* shell is its top; a line that binds no value and resolves to the subshell
\* that is active already, such as a "|" alone, does not push it again.
C38_StackHoldsNodeOnce ==
    /\ \A i, j \in 1..Len(shells) : i # j => shells[i] # shells[j]
    /\ shell = Last(shells)
    /\ ResolvesToActiveShell => shells = before.shells

(***************************************************************************)
(* Properties of the lock file of Cache.sync.                              *)
(***************************************************************************)
\* the caller leaves sync() with the TimeoutError of the wait loop
GivesUp(p) ==
    /\ sync[p].at = "finally" /\ sync[p].exc = "TimeoutError"
    /\ sync'[p].at = "idle"

\* C39: a call of sync() that gives up waiting for the lock leaves the lock
\* file of the caller that holds it in place: the lock file is removed by
\* the call that created it only.
C39_TimeoutKeepsLock ==
    [][\A p \in Callers : GivesUp(p) => disk'.lock = disk.lock]_vars

(***************************************************************************)
(* Properties of the pipe after the table outputter, on the lines of       *)
(* SpecTable.                                                              *)
(***************************************************************************)
\* the token at place i is a "|" met at the node of the table outputter
PipeAfterTableAt(i) ==
    /\ line[i] = T_pipe
    /\ NoRegionBefore(i)
    /\ ResolvedBefore(i).exc = ""
    /\ NodeAt(i) = "TabulateTableOutputter"

\* C40: the first frame of every pipe segment is a model of the schema: a
\* "|" after the table outputter goes on at the pipe-functions model, and
\* `sh j | table | include W` resolves and calls filter_include.
C40_PipeRootIsModel ==
    DefaultRan =>
        /\ \A i \in 1..Len(line) :
               \A s \in 1..Len(ResolvedUpTo(i).ret) :
                   IsModelClass(ResolvedUpTo(i).ret[s][1].model)
        /\ \A i \in 1..Len(line) :
               PipeAfterTableAt(i) =>
                   /\ ResolvedUpTo(i).exc = ""
                   /\ CurrentModel(ResolvedUpTo(i)).model = "PipeFunctionsModel"
        /\ line = <<T_sh, T_j, T_pipe, T_table, T_pipe, T_include, T_W>> =>
               /\ ParseCommand(before.shell, line, FALSE).exc = ""
               /\ \E k \in 1..Len(calls) : calls[k].method = "filter_include"

====
